---------------------------- MODULE Spec2Model ----------------------------
(***************************************************************************)
(* A model of the snowscrape crawl execution engine: the URL safety        *)
(* validator (validators.py), the per-domain rate limiter                  *)
(* (rate_limiter.py), the tiered fetch escalation controller               *)
(* (tiered_scraper.py), the query extraction engine (crawl_manager.py)     *)
(* and the crawl job runner (job_manager.py, utils.py, handler.py).        *)
(*                                                                         *)
(* Each component has its own specification over the shared variables:     *)
(*   SpecSSRF   validate_scrape_url, then the request of the HTTP client   *)
(*   SpecRate   DomainRateLimiter.wait_if_needed, one caller               *)
(*   SpecRateConc  one DomainRateLimiter called by two parallel fetches     *)
(*   SpecTier   smart_scrape, one escalation run                           *)
(*   SpecQuery  job creation (validate_queries) and process_queries        *)
(*   SpecCreate job creation alone                                          *)
(*   SpecExpr   validate_xpath_query and validate_regex_pattern, one call   *)
(*   Spec       process_job with cancel_job running beside it              *)
(***************************************************************************)
EXTENDS Integers, Sequences, FiniteSets, TLC

VARIABLES
    \* ---- URL safety validator (SpecSSRF)
    ssrfInput,      \* the URL handed to validate_scrape_url
    ssrfVerdict,    \* "none" before the call, then "ok" or the rejection
    ssrfConnected,  \* the address the HTTP client sent the request for that URL to
    \* ---- domain rate limiter (SpecRate)
    now,            \* time.time(), in ticks
    minDelay,       \* DomainRateLimiter.min_delay
    lastReq,        \* DomainRateLimiter._last_request_time
    rlPc,           \* position of the caller inside wait_if_needed
    rlCall,         \* locals of the call in progress
    rlRet,          \* what the last completed call observed and returned
    \* ---- tiered fetch escalation controller (SpecTier)
    tsCfg,          \* smart_scrape's arguments min_tier, max_tier, auto_escalate
    tsState,        \* Start, Attempting, Success, Blocked, Unavailable, Error, Exhausted
    current_tier,   \* smart_scrape's current_tier
    escalation_log, \* smart_scrape's escalation_log
    tsLast,         \* the failure of the last attempt
    tsOut,          \* what the caller of smart_scrape receives
    tsSeen,         \* the last call of detect_blocking: its response and what it returned
    tsUrl,          \* smart_scrape's url
    tsRequested,    \* the URLs the tier strategies have sent a request for
    \* ---- crawl job runner (Spec)
    jobCfg,         \* the job: its URLs, timeout, proxy_config, render_config
    jobStatus,      \* job_table: the job's status
    jobProgress,    \* job_table: the job's progress
    urlStatus,      \* url_table: the status of each URL
    pc,             \* where process_job stands
    idx,            \* the number of URLs handled so far (the loop's idx)
    results,        \* process_job's results
    processed_urls, \* process_job's processed_urls
    failed_urls,    \* process_job's failed_urls
    jobElapsed,     \* seconds since start_time
    fetchSt,        \* locals of the fetch_url_with_session call in progress
    fetchResp,      \* what fetch_url_with_session gave for the current URL
    requested,      \* the URLs an outbound request was made for
    ret,            \* what process_job handed to process_job_handler
    wroteProcessing, \* whether this run has set the status to 'processing'
    \* ---- query validator and extraction engine (SpecQuery)
    qSubmitted,     \* the query list a client submits
    qContent,       \* the page handed to process_queries
    qCreated,       \* "none", then "stored" or "rejected" by create_job_handler
    qStored,        \* the queries of the job as stored in job_table
    pqPc,           \* where process_queries stands
    pqQueries,      \* process_queries' argument queries
    pqIdx,          \* the position of the loop over queries
    html_tree,      \* whether process_queries' html_tree is not None
    extracted_data, \* process_queries' extracted_data
    pqLog,          \* per query handled: what was evaluated and what it gave
    pqReturned,     \* whether process_queries has returned extracted_data
    eqCall,         \* a call of crawler.py's execute_query: its query and what it returned
    \* ---- expression validators (SpecExpr)
    exprInput,      \* the expression handed to validate_xpath_query or validate_regex_pattern
    exprVerdict,    \* "none" before the call, then "ok" or the rejection
    \* ---- the rate limiter shared by parallel fetches (SpecRateConc)
    thPc,           \* position of each caller inside wait_if_needed
    thCall,         \* locals of each caller's call
    released,       \* the requests released: domain, time and caller of each return
    \* ---- the URL loop of process_job over a long job (SpecLoop)
    runTotal,       \* process_job's total_urls
    runIdx,         \* the number of URLs the loop has handled
    runProcessed,   \* process_job's processed_urls
    runFailed,      \* process_job's failed_urls
    runPc,          \* begin, loop, after (the loop ran to its end) or returned
    progressWrites, \* the progress writes issued: after which URL, whether stored, what
    \* ---- deliveries of one job's message to Lambda workers (SpecWorkers)
    sqsMessages,    \* the messages of the job waiting in the queue
    sqsDeliveries,  \* how many times a message of the job was handed to a worker
    wkStatus,       \* job_table: the job's status
    wkPc,           \* where each worker stands in process_job
    wkIdx,          \* each worker's loop index
    \* ---- proxy rotation inside one fetch call (SpecProxy)
    pxPool,         \* the healthy proxies of the cached pool
    pxStrategy,     \* proxy_config's rotation_strategy
    pxUsage,        \* proxy table: request_count of each proxy
    pxFailures,     \* proxy table: consecutive_failures of each proxy
    pxSession,      \* the proxy in session.proxies
    pxMaxRetries,   \* fetch_url_with_session's max_retries
    pxAttempt,      \* fetch_url_with_session's attempt
    pxPc            \* get while the retry loop runs, then done

ssrfVars == <<ssrfInput, ssrfVerdict, ssrfConnected>>
rateVars == <<now, minDelay, lastReq, rlPc, rlCall, rlRet>>
tierVars == <<tsCfg, tsState, current_tier, escalation_log, tsLast, tsOut, tsSeen, tsUrl,
              tsRequested>>
jobVars == <<jobCfg, jobStatus, jobProgress, urlStatus, pc, idx, results, processed_urls,
             failed_urls, jobElapsed, fetchSt, fetchResp, requested, ret, wroteProcessing>>
queryVars == <<qSubmitted, qContent, qCreated, qStored, pqPc, pqQueries, pqIdx, html_tree,
               extracted_data, pqLog, pqReturned, eqCall>>
exprVars == <<exprInput, exprVerdict>>
concVars == <<thPc, thCall, released>>
loopVars == <<runTotal, runIdx, runProcessed, runFailed, runPc, progressWrites>>
workVars == <<sqsMessages, sqsDeliveries, wkStatus, wkPc, wkIdx>>
proxyVars == <<pxPool, pxStrategy, pxUsage, pxFailures, pxSession, pxMaxRetries, pxAttempt,
               pxPc>>
vars == <<ssrfVars, rateVars, tierVars, jobVars, queryVars, exprVars, concVars, loopVars,
          workVars, proxyVars>>

(***************************************************************************)
(* Bounds of the model.                                                    *)
(***************************************************************************)
\* longest DNS answer (number of addresses getaddrinfo returns)
MaxAddrs == 2

NoValue == "none"

(***************************************************************************)
(* URL safety validator: validators.py, "SSRF Protection".                 *)
(*                                                                         *)
(* An address is [kind, w]: kind "v4" with w its 4 octets, kind "v6" with  *)
(* w its 8 sixteen-bit groups, or kind "bad" for a string that             *)
(* ipaddress.ip_address cannot parse.                                      *)
(***************************************************************************)
V4(a, b, c, d) == [kind |-> "v4", w |-> <<a, b, c, d>>]
V6(g) == [kind |-> "v6", w |-> g]
BadAddr == [kind |-> "bad", w |-> <<>>]

Pow2(n) == IF n = 0 THEN 1 ELSE 2 ^ n

\* addr in network: the first len bits of w equal those of base; each element
\* of w and base is width bits wide.
RECURSIVE PrefixMatch(_, _, _, _)
PrefixMatch(w, base, len, width) ==
    IF len <= 0 \/ w = <<>> THEN TRUE
    ELSE IF len >= width
         THEN Head(w) = Head(base)
              /\ PrefixMatch(Tail(w), Tail(base), len - width, width)
         ELSE Head(w) \div Pow2(width - len) = Head(base) \div Pow2(width - len)

\* a table whose private class B entry is 172.16.0.0/16 instead of /12
_BLOCKED_IPV4_NETWORKS_Slash16 ==
    << [base |-> <<127, 0, 0, 0>>,   len |-> 8],
       [base |-> <<10, 0, 0, 0>>,    len |-> 8],
       [base |-> <<172, 16, 0, 0>>,  len |-> 16],
       [base |-> <<192, 168, 0, 0>>, len |-> 16],
       [base |-> <<169, 254, 0, 0>>, len |-> 16],
       [base |-> <<0, 0, 0, 0>>,     len |-> 8] >>

_BLOCKED_IPV4_NETWORKS ==
    << [base |-> <<127, 0, 0, 0>>,   len |-> 8],
       [base |-> <<10, 0, 0, 0>>,    len |-> 8],
       [base |-> <<172, 16, 0, 0>>,  len |-> 12],
       [base |-> <<192, 168, 0, 0>>, len |-> 16],
       [base |-> <<169, 254, 0, 0>>, len |-> 16],
       [base |-> <<0, 0, 0, 0>>,     len |-> 8] >>

_BLOCKED_IPV6_NETWORKS ==
    << [base |-> <<0, 0, 0, 0, 0, 0, 0, 1>>,     len |-> 128],
       [base |-> <<64512, 0, 0, 0, 0, 0, 0, 0>>, len |-> 7],
       [base |-> <<65152, 0, 0, 0, 0, 0, 0, 0>>, len |-> 10] >>

InAnyV4(w) ==
    \E i \in 1..Len(_BLOCKED_IPV4_NETWORKS) :
        PrefixMatch(w, _BLOCKED_IPV4_NETWORKS[i].base, _BLOCKED_IPV4_NETWORKS[i].len, 8)

InAnyV6(w) ==
    \E i \in 1..Len(_BLOCKED_IPV6_NETWORKS) :
        PrefixMatch(w, _BLOCKED_IPV6_NETWORKS[i].base, _BLOCKED_IPV6_NETWORKS[i].len, 16)

\* IPv6Address.ipv4_mapped: ::ffff:a.b.c.d, else None (the empty tuple here)
ipv4_mapped(w) ==
    IF /\ \A i \in 1..5 : w[i] = 0
       /\ w[6] = 65535
    THEN <<w[7] \div 256, w[7] % 256, w[8] \div 256, w[8] % 256>>
    ELSE <<>>

\* a check that lets through what it cannot parse
_is_ip_blocked_AllowUnparsed(addr) ==
    IF addr.kind = "v4" THEN InAnyV4(addr.w)
    ELSE IF addr.kind = "v6"
         THEN IF ipv4_mapped(addr.w) # <<>>
              THEN InAnyV4(ipv4_mapped(addr.w))
              ELSE InAnyV6(addr.w)
    ELSE FALSE

\* _is_ip_blocked: ValueError from ip_address means blocked
_is_ip_blocked(addr) ==
    IF addr.kind = "bad" THEN TRUE
    ELSE IF addr.kind = "v4" THEN InAnyV4(addr.w)
    ELSE IF addr.kind = "v6"
         THEN IF ipv4_mapped(addr.w) # <<>>
              THEN InAnyV4(ipv4_mapped(addr.w))
              ELSE InAnyV6(addr.w)
    ELSE TRUE

\* a loop that looks at the first resolved address only
AnyResolvedBlocked_FirstOnly(addr_infos) ==
    addr_infos # <<>> /\ _is_ip_blocked(Head(addr_infos))

\* the for loop over addr_infos: the first blocked address raises
RECURSIVE AnyResolvedBlocked(_)
AnyResolvedBlocked(addr_infos) ==
    IF addr_infos = <<>> THEN FALSE
    ELSE IF _is_ip_blocked(Head(addr_infos)) THEN TRUE
    ELSE AnyResolvedBlocked(Tail(addr_infos))

\* hostname_lower == 'localhost' or hostname_lower.endswith('.localhost');
\* a hostname is the sequence of its lower-cased labels
IsLocalhostName(host) ==
    Len(host) >= 1 /\ host[Len(host)] = "localhost"

(* A URL input: raw is "none" (not a string), "empty" or "str"; parse_ok   *)
(* tells whether urlparse accepts it; scheme and host are what urlparse    *)
(* returns (host <<>>: no hostname); answer is what getaddrinfo gives for  *)
(* the host: gaierror raised, or the list addrs of addresses.              *)
validate_scrape_url(url) ==
    IF url.raw # "str" THEN "not_a_string"
    ELSE IF ~url.parse_ok THEN "invalid_format"
    ELSE IF url.scheme \notin {"http", "https"} THEN "scheme"
    ELSE IF url.host = <<>> THEN "no_hostname"
    ELSE IF IsLocalhostName(url.host) THEN "localhost"
    ELSE IF url.answer.gaierror THEN "unresolvable"
    ELSE IF url.answer.addrs = <<>> THEN "no_address"
    ELSE IF AnyResolvedBlocked(url.answer.addrs) THEN "blocked_ip"
    ELSE "ok"

UrlAccepted(url) == validate_scrape_url(url) = "ok"

(***************************************************************************)
(* Inputs of the validator.                                                *)
(***************************************************************************)
PublicV4 == V4(93, 184, 216, 34)
PublicV6 == V6(<<8193, 3512, 0, 0, 0, 0, 0, 1>>)

SampleAddrs ==
    { PublicV4,
      V4(127, 0, 0, 1),
      V4(128, 0, 0, 1),
      V4(10, 1, 2, 3),
      V4(172, 15, 255, 255),
      V4(172, 31, 255, 254),
      V4(172, 32, 0, 1),
      V4(192, 168, 1, 1),
      V4(169, 254, 169, 254),
      V4(0, 0, 0, 0),
      PublicV6,
      V6(<<0, 0, 0, 0, 0, 0, 0, 1>>),
      V6(<<64768, 0, 0, 0, 0, 0, 0, 1>>),
      V6(<<65023, 0, 0, 0, 0, 0, 0, 1>>),
      V6(<<65152, 0, 0, 0, 0, 0, 0, 1>>),
      V6(<<65215, 0, 0, 0, 0, 0, 0, 1>>),
      V6(<<65216, 0, 0, 0, 0, 0, 0, 1>>),
      V6(<<0, 0, 0, 0, 0, 0, 32512, 1>>),
      V6(<<0, 0, 0, 0, 0, 65535, 32512, 1>>),
      V6(<<0, 0, 0, 0, 0, 65535, 23992, 55330>>),
      BadAddr }

RECURSIVE SeqsUpTo(_, _)
SeqsUpTo(S, n) ==
    IF n = 0 THEN {<<>>}
    ELSE LET shorter == SeqsUpTo(S, n - 1)
         IN  shorter \cup {Append(s, x) : s \in {t \in shorter : Len(t) = n - 1}, x \in S}

GaiError == [gaierror |-> TRUE, addrs |-> <<>>]
Resolved(addrs) == [gaierror |-> FALSE, addrs |-> addrs]

DnsAnswers == {GaiError} \cup {Resolved(a) : a \in SeqsUpTo(SampleAddrs, MaxAddrs)}

SampleHosts ==
    { <<>>, <<"localhost">>, <<"app", "localhost">>,
      <<"example", "com">>, <<"localhost", "example", "com">> }

\* a URL whose scheme or hostname is refused never reaches getaddrinfo: such
\* an input carries no answer
ReachesLookup(s, h) == s \in {"http", "https"} /\ h # <<>> /\ ~IsLocalhostName(h)

UrlInputs ==
    { [raw |-> r, parse_ok |-> FALSE, scheme |-> "", host |-> <<>>, answer |-> GaiError] :
        r \in {"none", "empty", "str"} }
    \cup
    { [raw |-> "str", parse_ok |-> TRUE, scheme |-> sh[1], host |-> sh[2], answer |-> GaiError] :
        sh \in { x \in {"http", "https", "ftp", ""} \X SampleHosts : ~ReachesLookup(x[1], x[2]) } }
    \cup
    { [raw |-> "str", parse_ok |-> TRUE, scheme |-> sh[1], host |-> sh[2], answer |-> a] :
        sh \in { x \in {"http", "https", "ftp", ""} \X SampleHosts : ReachesLookup(x[1], x[2]) },
        a \in DnsAnswers }

\* no request has been sent
NoAddr == [kind |-> "none", w |-> <<>>]

\* the validator at rest, for the specifications of the other components
SsrfIdle ==
    /\ ssrfInput = [raw |-> "none", parse_ok |-> FALSE, scheme |-> "", host |-> <<>>,
                    answer |-> GaiError]
    /\ ssrfVerdict = NoValue
    /\ ssrfConnected = NoAddr

SsrfInit ==
    /\ ssrfInput \in UrlInputs
    /\ ssrfVerdict = NoValue
    /\ ssrfConnected = NoAddr

\* one call of validate_scrape_url
ValidateUrl ==
    /\ ssrfVerdict = NoValue
    /\ ssrfVerdict' = validate_scrape_url(ssrfInput)
    /\ UNCHANGED <<ssrfInput, ssrfConnected>>

\* utils.py, fetch_url_with_session: after validate_scrape_url has returned
\* (line 297), session.get(url) (line 371) is handed the URL, not the
\* addresses the validator looked at: the HTTP client resolves the hostname
\* by itself and connects to addr, an address of the answer it gets then
ClientConnect(addr) ==
    /\ ssrfVerdict = "ok"
    /\ ssrfConnected = NoAddr
    /\ ssrfConnected' = addr
    /\ UNCHANGED <<ssrfInput, ssrfVerdict>>

(***************************************************************************)
(* Domain rate limiter: rate_limiter.py, DomainRateLimiter.                *)
(* Time is counted in ticks; time.time() reads the variable now.           *)
(***************************************************************************)
\* largest min_delay tried
MaxDelay == 2
\* the clock runs from StartTime to StartTime + Horizon
StartTime == 3
Horizon == 5

RateUrls ==
    { [netloc |-> d, path |-> p] : d \in {"a.com", "b.org"}, p \in {"/", "/x"} }

Domains == {u.netloc : u \in RateUrls}

\* urlparse(url).netloc
get_domain(url) == url.netloc

\* lines 64-68: elapsed and the remaining wait
Elapsed(t, last) == t - last

\* a wait that is one tick short
WaitTime_Short(elapsed, d) == IF elapsed < d THEN d - elapsed - 1 ELSE 0

WaitTime(elapsed, d) == IF elapsed < d THEN d - elapsed ELSE 0

NoCall == [domain |-> "", prev |-> 0, hadPrev |-> FALSE, elapsed |-> 0, wait_time |-> 0,
           wakeAt |-> 0]
NoRet == [done |-> FALSE, domain |-> "", prev |-> 0, hadPrev |-> FALSE, elapsed |-> 0,
          waited |-> 0, retTime |-> 0, recorded |-> FALSE]

RateIdle ==
    /\ now = 0
    /\ minDelay = 0
    /\ lastReq = [d \in Domains |-> 0]
    /\ rlPc = "idle"
    /\ rlCall = NoCall
    /\ rlRet = NoRet

\* __init__: min_delay >= 0 (a negative one raises ValueError), and
\* _last_request_time = defaultdict(float): every domain reads 0.0 at first
RateInit ==
    /\ now = StartTime
    /\ minDelay \in 0..MaxDelay
    /\ lastReq = [d \in Domains |-> 0]
    /\ rlPc = "idle"
    /\ rlCall = NoCall
    /\ rlRet = NoRet

\* time passes, at any point of a call or between calls
Tick ==
    /\ now < StartTime + Horizon
    /\ now' = now + 1
    /\ UNCHANGED <<minDelay, lastReq, rlPc, rlCall, rlRet>>

\* whether some call has stored a timestamp for the domain
Stamped(d) == lastReq[d] # 0

\* wait_if_needed, lines 59-74: with min_delay <= 0 it returns 0.0 at once;
\* otherwise it reads the clock and, when too early, goes to sleep
WaitCall(url) ==
    /\ rlPc = "idle"
    /\ IF minDelay <= 0
       THEN /\ rlRet' = [done |-> TRUE, domain |-> get_domain(url),
                         prev |-> lastReq[get_domain(url)],
                         hadPrev |-> Stamped(get_domain(url)),
                         elapsed |-> Elapsed(now, lastReq[get_domain(url)]),
                         waited |-> 0, retTime |-> now, recorded |-> FALSE]
            /\ UNCHANGED <<rlPc, rlCall>>
       ELSE LET domain == get_domain(url)
                elapsed == Elapsed(now, lastReq[domain])
                wait_time == WaitTime(elapsed, minDelay)
            IN  /\ rlCall' = [domain |-> domain, prev |-> lastReq[domain],
                              hadPrev |-> Stamped(domain), elapsed |-> elapsed,
                              wait_time |-> wait_time, wakeAt |-> now + wait_time]
                /\ rlPc' = IF elapsed < minDelay THEN "sleep" ELSE "record"
                /\ UNCHANGED rlRet
    /\ UNCHANGED <<now, minDelay, lastReq>>

\* time.sleep(wait_time) returns once at least wait_time has passed
WaitWake ==
    /\ rlPc = "sleep"
    /\ now >= rlCall.wakeAt
    /\ rlPc' = "record"
    /\ UNCHANGED <<now, minDelay, lastReq, rlCall, rlRet>>

\* a return that leaves the domain's timestamp as it was
WaitRecord_NoStamp ==
    /\ rlPc = "record"
    /\ rlRet' = [done |-> TRUE, domain |-> rlCall.domain, prev |-> rlCall.prev,
                 hadPrev |-> rlCall.hadPrev, elapsed |-> rlCall.elapsed,
                 waited |-> rlCall.wait_time, retTime |-> now, recorded |-> TRUE]
    /\ rlPc' = "idle"
    /\ rlCall' = NoCall
    /\ UNCHANGED <<now, minDelay, lastReq>>

\* lines 76-77: store time.time() for the domain and return wait_time
WaitRecord ==
    /\ rlPc = "record"
    /\ lastReq' = [lastReq EXCEPT ![rlCall.domain] = now]
    /\ rlRet' = [done |-> TRUE, domain |-> rlCall.domain, prev |-> rlCall.prev,
                 hadPrev |-> rlCall.hadPrev, elapsed |-> rlCall.elapsed,
                 waited |-> rlCall.wait_time, retTime |-> now, recorded |-> TRUE]
    /\ rlPc' = "idle"
    /\ rlCall' = NoCall
    /\ UNCHANGED <<now, minDelay>>

(***************************************************************************)
(* One DomainRateLimiter used by parallel fetches: each caller runs         *)
(* wait_if_needed once, statement by statement, on the limiter's shared     *)
(* _last_request_time.  The method takes no lock.                           *)
(***************************************************************************)
Callers == {"fetch1", "fetch2"}

NoLocals == [domain |-> "", wakeAt |-> 0]

Release(domain, t) == [domain |-> domain, at |-> now, caller |-> t]

\* no caller is inside wait_if_needed and none has returned
ConcIdle ==
    /\ thPc = [t \in Callers |-> "idle"]
    /\ thCall = [t \in Callers |-> NoLocals]
    /\ released = {}

\* lines 59-74, for caller t: return at once with min_delay <= 0, otherwise
\* read the clock and the domain's timestamp and, when too early, sleep
ConcCall(t, url) ==
    /\ thPc[t] = "idle"
    /\ IF minDelay <= 0
       THEN /\ thPc' = [thPc EXCEPT ![t] = "done"]
            /\ released' = released \cup {Release(get_domain(url), t)}
            /\ UNCHANGED thCall
       ELSE LET domain == get_domain(url)
                elapsed == Elapsed(now, lastReq[domain])
                wait_time == WaitTime(elapsed, minDelay)
            IN  /\ thCall' = [thCall EXCEPT ![t] = [domain |-> domain,
                                                    wakeAt |-> now + wait_time]]
                /\ thPc' = [thPc EXCEPT ![t] = IF elapsed < minDelay THEN "sleep"
                                                ELSE "record"]
                /\ UNCHANGED released
    /\ UNCHANGED rateVars

\* time.sleep(wait_time) of caller t returns
ConcWake(t) ==
    /\ thPc[t] = "sleep"
    /\ now >= thCall[t].wakeAt
    /\ thPc' = [thPc EXCEPT ![t] = "record"]
    /\ UNCHANGED <<rateVars, thCall, released>>

\* lines 76-77, for caller t: store time.time() for the domain and return;
\* the caller's request goes out
ConcRecord(t) ==
    /\ thPc[t] = "record"
    /\ lastReq' = [lastReq EXCEPT ![thCall[t].domain] = now]
    /\ released' = released \cup {Release(thCall[t].domain, t)}
    /\ thPc' = [thPc EXCEPT ![t] = "done"]
    /\ UNCHANGED <<now, minDelay, rlPc, rlCall, rlRet, thCall>>

\* the URLs a job may list or a scrape may be asked for, with what urlparse
\* and getaddrinfo make of them
JobUrlNames == {"http://example.com/", "https://example.org/", "http://rebind.example/"}

UrlOf(name) ==
    IF name = "http://example.com/"
    THEN [raw |-> "str", parse_ok |-> TRUE, scheme |-> "http",
          host |-> <<"example", "com">>, answer |-> Resolved(<<PublicV4>>)]
    ELSE IF name = "https://example.org/"
    THEN [raw |-> "str", parse_ok |-> TRUE, scheme |-> "https",
          host |-> <<"example", "org">>, answer |-> Resolved(<<PublicV6>>)]
    ELSE [raw |-> "str", parse_ok |-> TRUE, scheme |-> "http",
          host |-> <<"rebind", "example">>,
          answer |-> Resolved(<<PublicV4, V4(127, 0, 0, 1)>>)]

(***************************************************************************)
(* Blocking detector and tiered escalation: tiered_scraper.py.             *)
(*                                                                         *)
(* A response is [status_code, phrases, striplen]: phrases is the set of   *)
(* blocking_patterns phrases that occur in the lower-cased text, striplen  *)
(* the length of the stripped text (0: no text).                           *)
(***************************************************************************)
\* TIER_INFO has the tiers 1..NumTiers
NumTiers == 4
\* Check 3: the minimal-content threshold
MinimalContentLen == 200

blocking_patterns ==
    << <<"just a moment...", "cloudflare_challenge">>,
       <<"checking your browser", "cloudflare_challenge">>,
       <<"enable javascript and cookies", "cloudflare_challenge">>,
       <<"cf-browser-verification", "cloudflare_verification">>,
       <<"access denied", "access_denied">>,
       <<"access forbidden", "access_forbidden">>,
       <<"verify you are human", "human_verification">>,
       <<"prove you are human", "human_verification">>,
       <<"unusual traffic from your computer network", "unusual_traffic">>,
       <<"automated access", "automation_detected">>,
       <<"please complete the security check", "security_check">>,
       <<"perimeterpx", "perimeterx_challenge">>,
       <<"datadome", "datadome_challenge">> >>

\* a status check that lets 503 through
StatusIndicators_No503(status_code) ==
    IF status_code = 403 THEN <<"403_forbidden">>
    ELSE IF status_code = 429 THEN <<"429_rate_limited">>
    ELSE <<>>

\* Check 1: the status code's indicator
StatusIndicators(status_code) ==
    IF status_code = 403 THEN <<"403_forbidden">>
    ELSE IF status_code = 429 THEN <<"429_rate_limited">>
    ELSE IF status_code = 503 THEN <<"503_service_unavailable">>
    ELSE <<>>

\* Check 2: one indicator per pattern found, in the table's order
RECURSIVE ContentIndicators(_, _)
ContentIndicators(phrases, i) ==
    IF i > Len(blocking_patterns) THEN <<>>
    ELSE (IF blocking_patterns[i][1] \in phrases
          THEN <<blocking_patterns[i][2]>> ELSE <<>>)
         \o ContentIndicators(phrases, i + 1)

\* a detector for which every short body is a sign of blocking
detect_blocking_ShortIsBlocked(response) ==
    LET hasText == response.striplen > 0 \/ response.phrases # {}
        first == StatusIndicators(response.status_code)
                 \o (IF hasText THEN ContentIndicators(response.phrases, 1) ELSE <<>>)
    IN  IF hasText /\ response.striplen < MinimalContentLen
        THEN Append(first, "minimal_content")
        ELSE first

\* detect_blocking: the indicators; is_blocked is len(indicators) > 0
detect_blocking(response) ==
    LET hasText == response.striplen > 0 \/ response.phrases # {}
        first == StatusIndicators(response.status_code)
                 \o (IF hasText THEN ContentIndicators(response.phrases, 1) ELSE <<>>)
    IN  IF /\ hasText
           /\ response.striplen < MinimalContentLen
           /\ (first # <<>> \/ response.status_code >= 400)
        THEN Append(first, "minimal_content")
        ELSE first

is_blocked(response) == Len(detect_blocking(response)) > 0

\* the status codes the code tells apart, and one of the others (404)
SampleStatusCodes == {200, 403, 404, 407, 429, 502, 503, 504}

SampleResponses ==
    { [status_code |-> c, phrases |-> p, striplen |-> n] :
        c \in SampleStatusCodes,
        p \in {{}, {"just a moment..."}, {"access denied", "datadome"}},
        n \in {0, 50, 5000} }
    \ { r \in [status_code : SampleStatusCodes,
               phrases : {{}, {"just a moment..."}, {"access denied", "datadome"}},
               striplen : {0, 50, 5000}] : r.striplen = 0 /\ r.phrases # {} }

\* a tier strategy that hands back whatever it received
scrape_tier_Unchecked(tier, net) ==
    IF tier >= 3 THEN [kind |-> "Unavailable", indicators |-> <<>>]
    ELSE IF tier = 2 /\ ~net.proxy THEN [kind |-> "Unavailable", indicators |-> <<>>]
    ELSE IF net.failed THEN [kind |-> "Error", indicators |-> <<>>]
    ELSE [kind |-> "Success", indicators |-> <<>>]

(* What one tier strategy does with what the network gives it: net is      *)
(* [proxy, failed, response]: whether a proxy endpoint is at hand (tier 2),*)
(* whether requests.get raised, and the response otherwise.  The outcome   *)
(* is Success, Blocked (BlockingDetectionError), Unavailable               *)
(* (NotImplementedError) or Error (any other exception).                   *)
scrape_tier(tier, net) ==
    IF tier >= 3 THEN [kind |-> "Unavailable", indicators |-> <<>>]
    ELSE IF tier = 2 /\ ~net.proxy THEN [kind |-> "Unavailable", indicators |-> <<>>]
    ELSE IF net.failed THEN [kind |-> "Error", indicators |-> <<>>]
    ELSE IF is_blocked(net.response)
         THEN [kind |-> "Blocked", indicators |-> detect_blocking(net.response)]
    ELSE [kind |-> "Success", indicators |-> <<>>]

\* lines 171 and 288-295: tier 1, and tier 2 once it has a proxy, call
\* requests.get(url) as the url came in
SendsRequest(tier, net) == tier = 1 \/ (tier = 2 /\ net.proxy)

NetOutcomes ==
    { [proxy |-> x, failed |-> f, response |-> r] :
        x \in BOOLEAN, f \in BOOLEAN, r \in SampleResponses }

TierConfigs ==
    [min_tier : 1..NumTiers, max_tier : 1..NumTiers, auto_escalate : BOOLEAN]

LogEntry(kind, tier) == [kind |-> kind, tier |-> tier]

NoFailure == [kind |-> "none", tier |-> 0, indicators |-> <<>>]
NoOutcome == [kind |-> "none", tier |-> 0, reason |-> "none", hasLog |-> FALSE,
              log |-> <<>>]
\* no response has reached detect_blocking (the request raised, or the tier
\* has no strategy)
NoDetection == [called |-> FALSE,
                response |-> [status_code |-> 0, phrases |-> {}, striplen |-> 0],
                is_blocked |-> FALSE, indicators |-> <<>>]

TierIdle ==
    /\ tsCfg = [min_tier |-> 1, max_tier |-> 1, auto_escalate |-> FALSE]
    /\ tsState = "Idle"
    /\ current_tier = 0
    /\ escalation_log = <<>>
    /\ tsLast = NoFailure
    /\ tsOut = NoOutcome
    /\ tsSeen = NoDetection
    /\ tsUrl = "http://example.com/"
    /\ tsRequested = {}

\* lines 394-395
TierInit ==
    /\ tsCfg \in TierConfigs
    /\ tsState = "Start"
    /\ current_tier = tsCfg.min_tier
    /\ escalation_log = <<>>
    /\ tsLast = NoFailure
    /\ tsOut = NoOutcome
    /\ tsSeen = NoDetection
    /\ tsUrl \in JobUrlNames
    /\ tsRequested = {}

\* line 404, on entry: an empty tier range ends in "All tiers exhausted"
TierStart ==
    /\ tsState = "Start"
    /\ IF current_tier <= tsCfg.max_tier
       THEN /\ tsState' = "Attempting"
            /\ UNCHANGED tsOut
       ELSE /\ tsState' = "Exhausted"
            /\ tsOut' = [kind |-> "raised", tier |-> 0, reason |-> "all_exhausted",
                         hasLog |-> FALSE, log |-> <<>>]
    /\ UNCHANGED <<tsCfg, current_tier, escalation_log, tsLast, tsSeen, tsUrl, tsRequested>>

\* lines 405-428: one attempt; a success returns
\* (result, current_tier, escalation_log)
TierAttempt(net) ==
    /\ tsState = "Attempting"
    /\ LET res == scrape_tier(current_tier, net)
           log1 == Append(escalation_log, LogEntry("attempt", current_tier))
       IN  IF res.kind = "Success"
           THEN /\ escalation_log' = Append(log1, LogEntry("success", current_tier))
                /\ tsState' = "Success"
                /\ tsOut' = [kind |-> "returned", tier |-> current_tier,
                             reason |-> "none", hasLog |-> TRUE,
                             log |-> Append(log1, LogEntry("success", current_tier))]
                /\ UNCHANGED tsLast
           ELSE /\ escalation_log' = log1
                /\ tsState' = res.kind
                /\ tsLast' = [kind |-> res.kind, tier |-> current_tier,
                              indicators |-> res.indicators]
                /\ UNCHANGED tsOut
    /\ tsSeen' = IF scrape_tier(current_tier, net).kind \in {"Success", "Blocked"}
                 THEN [called |-> TRUE, response |-> net.response,
                       is_blocked |-> is_blocked(net.response),
                       indicators |-> detect_blocking(net.response)]
                 ELSE NoDetection
    /\ tsRequested' = IF SendsRequest(current_tier, net)
                      THEN tsRequested \cup {tsUrl} ELSE tsRequested
    /\ UNCHANGED <<tsCfg, current_tier, tsUrl>>

\* an escalation test that forgets auto_escalate
ShouldEscalate_IgnoreAuto(auto_escalate, tier, max_tier) ==
    tier < max_tier

\* lines 439 and 474: "if not auto_escalate or current_tier >= max_tier: raise"
ShouldEscalate(auto_escalate, tier, max_tier) ==
    ~(~auto_escalate \/ tier >= max_tier)

\* an escalation that advances by two tiers
TierHandle_SkipTier ==
    /\ tsState \in {"Blocked", "Unavailable", "Error"}
    /\ IF tsState = "Unavailable"
       THEN /\ escalation_log' =
                   Append(escalation_log, LogEntry("not_implemented", current_tier))
            /\ tsState' = "Exhausted"
            /\ tsOut' = [kind |-> "raised", tier |-> current_tier,
                         reason |-> "Unavailable", hasLog |-> FALSE, log |-> <<>>]
            /\ UNCHANGED current_tier
       ELSE LET entry == IF tsState = "Blocked" THEN "blocked" ELSE "error"
                log1 == Append(escalation_log, LogEntry(entry, current_tier))
            IN  IF ShouldEscalate(tsCfg.auto_escalate, current_tier, tsCfg.max_tier)
                THEN /\ current_tier' = current_tier + 2
                     /\ escalation_log' =
                            Append(log1, LogEntry("escalate", current_tier + 2))
                     /\ tsState' = "Attempting"
                     /\ UNCHANGED tsOut
                ELSE /\ escalation_log' = log1
                     /\ tsState' = "Exhausted"
                     /\ tsOut' = [kind |-> "raised",
                                  tier |-> IF tsState = "Blocked" THEN current_tier ELSE 0,
                                  reason |-> tsState, hasLog |-> FALSE, log |-> <<>>]
                     /\ UNCHANGED current_tier
    /\ UNCHANGED <<tsCfg, tsLast, tsSeen, tsUrl, tsRequested>>

\* the except clauses, lines 430-479.  A raise hands the caller an exception
\* whose message cites the tier (Blocked, Unavailable) or is the original
\* error's (Error); the escalation log is a local of smart_scrape.
TierHandle ==
    /\ tsState \in {"Blocked", "Unavailable", "Error"}
    /\ IF tsState = "Unavailable"
       THEN /\ escalation_log' =
                   Append(escalation_log, LogEntry("not_implemented", current_tier))
            /\ tsState' = "Exhausted"
            /\ tsOut' = [kind |-> "raised", tier |-> current_tier,
                         reason |-> "Unavailable", hasLog |-> FALSE, log |-> <<>>]
            /\ UNCHANGED current_tier
       ELSE LET entry == IF tsState = "Blocked" THEN "blocked" ELSE "error"
                log1 == Append(escalation_log, LogEntry(entry, current_tier))
            IN  IF ShouldEscalate(tsCfg.auto_escalate, current_tier, tsCfg.max_tier)
                THEN /\ current_tier' = current_tier + 1
                     /\ escalation_log' =
                            Append(log1, LogEntry("escalate", current_tier + 1))
                     /\ tsState' = "Attempting"
                     /\ UNCHANGED tsOut
                ELSE /\ escalation_log' = log1
                     /\ tsState' = "Exhausted"
                     /\ tsOut' = [kind |-> "raised",
                                  tier |-> IF tsState = "Blocked" THEN current_tier ELSE 0,
                                  reason |-> tsState, hasLog |-> FALSE, log |-> <<>>]
                     /\ UNCHANGED current_tier
    /\ UNCHANGED <<tsCfg, tsLast, tsSeen, tsUrl, tsRequested>>

(***************************************************************************)
(* Crawl job runner: job_manager.py process_job and cancel_job, utils.py   *)
(* fetch_url_with_session and initialize_session, handler.py               *)
(* process_job_handler.                                                    *)
(*                                                                         *)
(* One run of one job.  A call to DynamoDB succeeds or raises ClientError, *)
(* which is what the helpers it goes through are written for; the network  *)
(* gives each request any of the outcomes the fetch code tells apart.      *)
(* jobElapsed is the time since process_job took start_time, in seconds.   *)
(***************************************************************************)
\* longest URL list of a job
MaxUrls == 2
\* largest proxy_config.max_retries
MaxRetries == 2
\* the job's timeout, in seconds
JobTimeout == 1
\* the run is followed for MaxElapsed seconds
MaxElapsed == 2

\* "(idx + 1) % 10 == 0"
ProgressEvery == 10

\* url_table holds one item per (job_id, url): a job's URLs are distinct
UrlLists ==
    { s \in SeqsUpTo(JobUrlNames, MaxUrls) :
        \A i, j \in 1..Len(s) : i # j => s[i] # s[j] }

ProxyConfigs ==
    { [enabled |-> FALSE, fallback_to_direct |-> TRUE, max_retries |-> 3,
       max_retries_float |-> FALSE] }
    \cup { [enabled |-> TRUE, fallback_to_direct |-> f, max_retries |-> r,
             max_retries_float |-> FALSE] :
             f \in BOOLEAN, r \in 0..MaxRetries }

\* handler.py 696 and 752-755: schedule_jobs_handler passes the job item
\* through decimal_to_float (utils.py 178-186) and json.dumps before it
\* queues it, so a max_retries stored in job_table reaches process_job as a
\* float (3.0)
QueuedProxyConfigs ==
    { [enabled |-> e, fallback_to_direct |-> f, max_retries |-> r,
       max_retries_float |-> TRUE] :
          e \in BOOLEAN, f \in BOOLEAN, r \in 1..MaxRetries }

RenderConfigs ==
    { [enabled |-> FALSE, fallback_to_standard |-> TRUE] }
    \cup { [enabled |-> TRUE, fallback_to_standard |-> f] : f \in BOOLEAN }

JobConfigs ==
    [urls : UrlLists, timeout : {JobTimeout}, proxy_config : ProxyConfigs,
     render_config : RenderConfigs]

\* what session.get gives: a fetchResp with a status code, or an exception
HttpOutcomes ==
    { [exc |-> "none", status_code |-> c] : c \in {200, 404, 502} }
    \cup { [exc |-> e, status_code |-> 0] : e \in {"Timeout", "RequestException", "Exception"} }

\* what the snowscrape-js-renderer invocation gives
RenderOutcomes == {"success", "failed", "exception"}

NoResult == [status |-> "none", message |-> ""]
NoResults == [u \in JobUrlNames |-> NoResult]
NoReturn == [kind |-> "none", status |-> "", hasResults |-> FALSE, results |-> NoResults]
NoProgress == [total |-> 0, processed |-> 0, failed |-> 0, percentage |-> 0]
NoFetch == [attempt |-> 0, verdict |-> NoValue, requests |-> <<>>]

\* a returned {'status': ..., 'message': ...}: it carries no results
StatusReturn(status) ==
    [kind |-> "status", status |-> status, hasResults |-> FALSE, results |-> NoResults]

ErrorResponse(message) == [status |-> "error", message |-> message]
SuccessResponse == [status |-> "success", message |-> "content"]

\* the job runner at rest, for the specifications of the other components
JobIdle ==
    /\ jobCfg = [urls |-> <<>>, timeout |-> 1,
                 proxy_config |-> [enabled |-> FALSE, fallback_to_direct |-> TRUE,
                                   max_retries |-> 3, max_retries_float |-> FALSE],
                 render_config |-> [enabled |-> FALSE, fallback_to_standard |-> TRUE]]
    /\ jobStatus = "ready"
    /\ jobProgress = NoProgress
    /\ urlStatus = [u \in JobUrlNames |-> "ready"]
    /\ pc = "idle"
    /\ idx = 0
    /\ results = NoResults
    /\ processed_urls = 0
    /\ failed_urls = 0
    /\ jobElapsed = 0
    /\ fetchSt = NoFetch
    /\ fetchResp = NoResult
    /\ requested = {}
    /\ ret = NoReturn
    /\ wroteProcessing = FALSE

\* process_job is entered with the job as scheduled (schedule_jobs_handler
\* queues a 'ready' job and then marks it 'queued'); lines 275-279
JobInit ==
    /\ jobCfg \in JobConfigs
    /\ jobStatus \in {"ready", "queued"}
    /\ jobProgress = NoProgress
    /\ urlStatus = [u \in JobUrlNames |-> "ready"]
    /\ pc = "start"
    /\ idx = 0
    /\ results = NoResults
    /\ processed_urls = 0
    /\ failed_urls = 0
    /\ jobElapsed = 0
    /\ fetchSt = NoFetch
    /\ fetchResp = NoResult
    /\ requested = {}
    /\ ret = NoReturn
    /\ wroteProcessing = FALSE

\* job_manager.py line 360: process_job calls fetch_url_with_session for a
\* URL of the job with the proxy_config and render_config of the queued job
FetchInit ==
    /\ jobCfg \in [urls : {<<u>> : u \in JobUrlNames}, timeout : {JobTimeout},
                   proxy_config : ProxyConfigs \cup QueuedProxyConfigs,
                   render_config : RenderConfigs]
    /\ jobStatus = "processing"
    /\ jobProgress = NoProgress
    /\ urlStatus = [u \in JobUrlNames |-> "ready"]
    /\ pc = "fetch"
    /\ idx = 0
    /\ results = NoResults
    /\ processed_urls = 0
    /\ failed_urls = 0
    /\ jobElapsed = 0
    /\ fetchSt = NoFetch
    /\ fetchResp = NoResult
    /\ requested = {}
    /\ ret = NoReturn
    /\ wroteProcessing = TRUE

total_urls == Len(jobCfg.urls)
CurrentUrl == jobCfg.urls[idx + 1]

\* time passes while the run is under way
JobTick ==
    /\ pc \notin {"idle", "done"}
    /\ jobElapsed < MaxElapsed
    /\ jobElapsed' = jobElapsed + 1
    /\ UNCHANGED <<jobCfg, jobStatus, jobProgress, urlStatus, pc, idx, results,
                   processed_urls, failed_urls, fetchSt, fetchResp, requested, ret,
                   wroteProcessing>>

\* cancel_job, called by a user at any moment of the run
CancelJob ==
    /\ pc \notin {"idle", "done"}
    /\ jobStatus # "cancelled"
    /\ jobStatus' = "cancelled"
    /\ UNCHANGED <<jobCfg, jobProgress, urlStatus, pc, idx, results, processed_urls,
                   failed_urls, jobElapsed, fetchSt, fetchResp, requested, ret,
                   wroteProcessing>>

\* lines 281-297: the check for a cancellation made before the start, then
\* fetch_urls_for_job; got tells whether get_job could read the job
JobStart(got) ==
    /\ pc = "start"
    /\ IF got /\ jobStatus = "cancelled"
       THEN /\ ret' = StatusReturn("cancelled")
            /\ pc' = "returned"
       ELSE IF total_urls = 0
       THEN /\ ret' = StatusReturn("error")
            /\ pc' = "returned"
       ELSE /\ pc' = "set_processing"
            /\ UNCHANGED ret
    /\ UNCHANGED <<jobCfg, jobStatus, jobProgress, urlStatus, idx, results,
                   processed_urls, failed_urls, jobElapsed, fetchSt, fetchResp, requested,
                   wroteProcessing>>

\* lines 299-332: the first progress write, which also sets 'processing';
\* a failed write is printed and the run goes on
SetProcessing(ok) ==
    /\ pc = "set_processing"
    /\ IF ok
       THEN /\ jobStatus' = "processing"
            /\ jobProgress' = [total |-> total_urls, processed |-> 0, failed |-> 0,
                               percentage |-> 0]
            /\ wroteProcessing' = TRUE
       ELSE UNCHANGED <<jobStatus, jobProgress, wroteProcessing>>
    /\ pc' = "init_session"
    /\ UNCHANGED <<jobCfg, urlStatus, idx, results, processed_urls, failed_urls, jobElapsed,
                   fetchSt, fetchResp, requested, ret>>

\* initialize_session (utils.py 509-529): with a proxy asked for, none at
\* hand and fallback_to_direct off, it raises
SessionRaises(proxy_config, proxy_url) ==
    proxy_config.enabled /\ ~proxy_url /\ ~proxy_config.fallback_to_direct

\* lines 334-337: initialize_session is called outside every try block, so
\* what it raises leaves process_job; proxy_url tells whether the proxy
\* manager has a proxy to give
InitSession(proxy_url) ==
    /\ pc = "init_session"
    /\ IF SessionRaises(jobCfg.proxy_config, proxy_url)
       THEN /\ ret' = [kind |-> "raised", status |-> "", hasResults |-> FALSE,
                       results |-> NoResults]
            /\ pc' = "returned"
       ELSE /\ pc' = "loop"
            /\ UNCHANGED ret
    /\ UNCHANGED <<jobCfg, jobStatus, jobProgress, urlStatus, idx, results,
                   processed_urls, failed_urls, jobElapsed, fetchSt, fetchResp, requested,
                   wroteProcessing>>

\* lines 341-357, the head of an iteration: the timeout check, then the
\* cancellation check; ok tells whether the DynamoDB call of the step works
\* (update_job_status swallows a failure, get_job returns None on one)
LoopCheck(ok) ==
    /\ pc = "loop"
    /\ IF jobElapsed > jobCfg.timeout
       THEN /\ jobStatus' = IF ok THEN "timeout" ELSE jobStatus
            /\ ret' = StatusReturn("timeout")
            /\ pc' = "returned"
       ELSE IF ok /\ jobStatus = "cancelled"
       THEN /\ ret' = StatusReturn("cancelled")
            /\ pc' = "returned"
            /\ UNCHANGED jobStatus
       ELSE /\ pc' = "fetch"
            /\ UNCHANGED <<jobStatus, ret>>
    /\ UNCHANGED <<jobCfg, jobProgress, urlStatus, idx, results, processed_urls,
                   failed_urls, jobElapsed, fetchSt, fetchResp, requested, wroteProcessing>>

\* utils.py line 366
max_retries(proxy_config) ==
    IF proxy_config.enabled THEN proxy_config.max_retries ELSE 1

\* utils.py line 368: range(max_retries) raises TypeError for a float
RangeRaises(proxy_config) ==
    proxy_config.enabled /\ proxy_config.max_retries_float

\* a fetch that goes on with a URL the validator refused
FetchRoute_BestEffort(verdict, render_config, proxy_config) ==
    IF render_config.enabled THEN "render"
    ELSE IF RangeRaises(proxy_config) THEN "raised"
    ELSE IF max_retries(proxy_config) > 0 THEN "get"
    ELSE "exhausted"

\* utils.py 295-303 and 366-368: where fetch_url_with_session goes after
\* validate_scrape_url
FetchRoute(verdict, render_config, proxy_config) ==
    IF verdict # "ok" THEN "rejected"
    ELSE IF render_config.enabled THEN "render"
    ELSE IF RangeRaises(proxy_config) THEN "raised"
    ELSE IF max_retries(proxy_config) > 0 THEN "get"
    ELSE "exhausted"

\* line 360 and utils.py 295-303: fetch_url_with_session validates the URL
\* before anything else
FetchValidate ==
    /\ pc = "fetch"
    /\ LET verdict == validate_scrape_url(UrlOf(CurrentUrl))
           route == FetchRoute(verdict, jobCfg.render_config, jobCfg.proxy_config)
       IN  /\ fetchSt' = [attempt |-> 0, verdict |-> verdict, requests |-> <<>>]
           /\ IF route = "rejected"
              THEN /\ fetchResp' = ErrorResponse("URL validation failed")
                   /\ pc' = "record"
              ELSE IF route = "exhausted"
              THEN /\ fetchResp' = ErrorResponse("Max retries exceeded")
                   /\ pc' = "record"
              ELSE IF route = "raised"
              THEN /\ fetchResp' = [status |-> "raised", message |-> "exception"]
                   /\ pc' = "record"
              ELSE /\ pc' = route
                   /\ UNCHANGED fetchResp
    /\ UNCHANGED <<jobCfg, jobStatus, jobProgress, urlStatus, idx, results,
                   processed_urls, failed_urls, jobElapsed, requested, ret, wroteProcessing>>

\* utils.py 303-363: the JS-render call and its fallback
FetchRender(out) ==
    /\ pc = "render"
    /\ requested' = requested \cup {CurrentUrl}
    /\ fetchSt' = [fetchSt EXCEPT !.requests = Append(@, "render")]
    /\ IF out = "success"
       THEN /\ fetchResp' = SuccessResponse
            /\ pc' = "record"
       ELSE IF ~jobCfg.render_config.fallback_to_standard
       THEN /\ fetchResp' = ErrorResponse("JS rendering failed")
            /\ pc' = "record"
       ELSE IF RangeRaises(jobCfg.proxy_config)
       THEN /\ fetchResp' = [status |-> "raised", message |-> "exception"]
            /\ pc' = "record"
       ELSE IF max_retries(jobCfg.proxy_config) > 0
       THEN /\ pc' = "get"
            /\ UNCHANGED fetchResp
       ELSE /\ fetchResp' = ErrorResponse("Max retries exceeded")
            /\ pc' = "record"
    /\ UNCHANGED <<jobCfg, jobStatus, jobProgress, urlStatus, idx, results,
                   processed_urls, failed_urls, jobElapsed, ret, wroteProcessing>>

\* time.sleep(2 ** attempt)
Backoff(attempt) == 2 ^ attempt

\* lines 390-411: a proxy error is retried when attempts remain, a proxy is
\* configured and the proxy manager hands out a new one
RetriesProxyError(status_code, attempt, proxy_config, new_proxy) ==
    /\ status_code \in {407, 502, 504}
    /\ attempt < max_retries(proxy_config) - 1
    /\ proxy_config.enabled
    /\ new_proxy

\* utils.py 368-452: one pass through the retry loop; net is what
\* session.get gives, new_proxy whether get_proxy_url hands out a proxy
FetchGet(net, new_proxy) ==
    /\ pc = "get"
    /\ requested' = requested \cup {CurrentUrl}
    /\ LET attempt == fetchSt.attempt
           sent == Append(fetchSt.requests, "get")
           again == /\ fetchSt' = [fetchSt EXCEPT !.attempt = attempt + 1,
                                                  !.requests = sent]
                    /\ jobElapsed' = IF jobElapsed + Backoff(attempt) > MaxElapsed
                                  THEN MaxElapsed ELSE jobElapsed + Backoff(attempt)
                    /\ pc' = "get"
                    /\ UNCHANGED fetchResp
           end(r) == /\ fetchResp' = r
                     /\ pc' = "record"
                     /\ fetchSt' = [fetchSt EXCEPT !.requests = sent]
                     /\ UNCHANGED jobElapsed
       IN  IF net.exc = "none"
           THEN IF net.status_code < 400 THEN end(SuccessResponse)
                ELSE IF RetriesProxyError(net.status_code, attempt, jobCfg.proxy_config,
                                          new_proxy)
                     THEN again
                     ELSE end(ErrorResponse("HTTP error"))
           ELSE IF net.exc \in {"Timeout", "RequestException"}
           THEN IF attempt < max_retries(jobCfg.proxy_config) - 1
                THEN again
                ELSE end(ErrorResponse(IF net.exc = "Timeout" THEN "Request timeout"
                                       ELSE "Request failed"))
           ELSE end([status |-> "raised", message |-> "exception"])
    /\ UNCHANGED <<jobCfg, jobStatus, jobProgress, urlStatus, idx, results,
                   processed_urls, failed_urls, ret, wroteProcessing>>

\* a runner that gives up the remaining URLs after a failed one
AfterUrl_StopOnError(status, handled, total) ==
    IF status # "success" \/ handled >= total THEN "save" ELSE "loop"

\* the for loop of line 341: the next URL, or the code after the loop
AfterUrl(status, handled, total) ==
    IF handled < total THEN "loop" ELSE "save"

\* a loop that writes progress after the last URL only
ProgressDue_LastOnly(handled, total) == handled = total

\* line 426
ProgressDue(handled, total) ==
    handled % ProgressEvery = 0 \/ handled = total

\* a percentage of the URLs still to do
Percentage_Remaining(processed, failed, total) ==
    ((total - processed - failed) * 100) \div total

\* line 427: int(((processed_urls + failed_urls) / total_urls) * 100); the
\* float quotient truncates to the exact floor for every total below 50
Percentage(processed, failed, total) == ((processed + failed) * 100) \div total

\* a loop whose except clause forgets to count the URL
RecordUrl_ExceptionUncounted(progok) ==
    /\ pc = "record"
    /\ LET url == CurrentUrl
           good == fetchResp.status = "success"
           processed == IF good THEN processed_urls + 1 ELSE processed_urls
           failed == IF good \/ fetchResp.status = "raised" THEN failed_urls
                     ELSE failed_urls + 1
       IN  /\ results' = [results EXCEPT ![url] =
                            IF good THEN [status |-> "success", message |-> "data"]
                            ELSE IF fetchResp.status = "error" THEN fetchResp
                            ELSE ErrorResponse("exception")]
           /\ urlStatus' = [urlStatus EXCEPT ![url] = IF good THEN "finished" ELSE "error"]
           /\ processed_urls' = processed
           /\ failed_urls' = failed
           /\ jobProgress' = IF ProgressDue(idx + 1, total_urls) /\ progok
                             THEN [total |-> total_urls, processed |-> processed,
                                   failed |-> failed,
                                   percentage |-> Percentage(processed, failed, total_urls)]
                             ELSE jobProgress
           /\ idx' = idx + 1
           /\ pc' = AfterUrl(fetchResp.status, idx + 1, total_urls)
    /\ fetchResp' = NoResult
    /\ fetchSt' = NoFetch
    /\ UNCHANGED <<jobCfg, jobStatus, jobElapsed, requested, ret, wroteProcessing>>

\* lines 362-442: the URL's result, its url_table status, the counters and
\* the progress write; progok tells whether the write to job_table works (a
\* failure is caught and printed)
RecordUrl(progok) ==
    /\ pc = "record"
    /\ LET url == CurrentUrl
           good == fetchResp.status = "success"
           processed == IF good THEN processed_urls + 1 ELSE processed_urls
           failed == IF good THEN failed_urls ELSE failed_urls + 1
       IN  /\ results' = [results EXCEPT ![url] =
                            IF good THEN [status |-> "success", message |-> "data"]
                            ELSE IF fetchResp.status = "error" THEN fetchResp
                            ELSE ErrorResponse("exception")]
           /\ urlStatus' = [urlStatus EXCEPT ![url] = IF good THEN "finished" ELSE "error"]
           /\ processed_urls' = processed
           /\ failed_urls' = failed
           /\ jobProgress' = IF ProgressDue(idx + 1, total_urls) /\ progok
                             THEN [total |-> total_urls, processed |-> processed,
                                   failed |-> failed,
                                   percentage |-> Percentage(processed, failed, total_urls)]
                             ELSE jobProgress
           /\ idx' = idx + 1
           /\ pc' = AfterUrl(fetchResp.status, idx + 1, total_urls)
    /\ fetchResp' = NoResult
    /\ fetchSt' = NoFetch
    /\ UNCHANGED <<jobCfg, jobStatus, jobElapsed, requested, ret, wroteProcessing>>

\* lines 462-517: after the loop the results are saved and the status goes
\* back to 'ready'; when that write fails an error is returned
FinishJob(ok) ==
    /\ pc = "save"
    /\ IF ok
       THEN /\ jobStatus' = "ready"
            /\ ret' = [kind |-> "results", status |-> "", hasResults |-> TRUE,
                       results |-> results]
       ELSE /\ ret' = StatusReturn("error")
            /\ UNCHANGED jobStatus
    /\ pc' = "returned"
    /\ UNCHANGED <<jobCfg, jobProgress, urlStatus, idx, results, processed_urls,
                   failed_urls, jobElapsed, fetchSt, fetchResp, requested, wroteProcessing>>

\* handler.py 522-609: what process_job_handler does with the outcome; only
\* a result map makes it write result.json and set 'ready'
HandlerFinish(ok) ==
    /\ pc = "returned"
    /\ jobStatus' = IF ret.kind = "results" /\ ok THEN "ready" ELSE jobStatus
    /\ pc' = "done"
    /\ UNCHANGED <<jobCfg, jobProgress, urlStatus, idx, results, processed_urls,
                   failed_urls, jobElapsed, fetchSt, fetchResp, requested, ret,
                   wroteProcessing>>

(***************************************************************************)
(* Query safety validator (validators.py, InputValidator) and query        *)
(* extraction engine (crawl_manager.py, process_queries).                  *)
(*                                                                         *)
(* An expression is the sequence of its characters; <<>> stands for an     *)
(* absent or empty one.  A query is [name, type, selector, query, join]:   *)
(* selector and query are the expressions stored under those two keys.     *)
(***************************************************************************)
\* longest query list
MaxQueries == 2
\* most matches an evaluation finds
MaxMatches == 2

MAX_QUERIES_PER_JOB == 50
MAX_XPATH_LENGTH == 1000
MAX_REGEX_PATTERN_LENGTH == 500
MAX_REGEX_QUANTIFIERS == 5
MAX_QUERY_SELECTOR_LENGTH == 1000
MAX_NESTING_DEPTH == 20

Whitespace == {" ", "\t", "\n"}
Digits == {"0", "1", "2", "3", "4", "5", "6", "7", "8", "9"}
Letters ==
    {"a", "b", "c", "d", "e", "f", "g", "h", "i", "j", "k", "l", "m", "n", "o", "p",
     "q", "r", "s", "t", "u", "v", "w", "x", "y", "z"}
\* \w, for the characters the expressions here are written with
WordChars == Letters \cup Digits \cup {"_"}

ALLOWED_XPATH_FUNCTIONS ==
    { <<"t", "e", "x", "t">>,
      <<"c", "o", "n", "t", "a", "i", "n", "s">>,
      <<"s", "t", "a", "r", "t", "s", "-", "w", "i", "t", "h">>,
      <<"e", "n", "d", "s", "-", "w", "i", "t", "h">>,
      <<"n", "o", "r", "m", "a", "l", "i", "z", "e", "-", "s", "p", "a", "c", "e">>,
      <<"p", "o", "s", "i", "t", "i", "o", "n">>,
      <<"l", "a", "s", "t">>,
      <<"c", "o", "u", "n", "t">>,
      <<"s", "t", "r", "i", "n", "g", "-", "l", "e", "n", "g", "t", "h">>,
      <<"c", "o", "n", "c", "a", "t">>,
      <<"s", "u", "b", "s", "t", "r", "i", "n", "g">>,
      <<"s", "u", "b", "s", "t", "r", "i", "n", "g", "-", "b", "e", "f", "o", "r", "e">>,
      <<"s", "u", "b", "s", "t", "r", "i", "n", "g", "-", "a", "f", "t", "e", "r">>,
      <<"n", "o", "t">>,
      <<"a", "n", "d">>,
      <<"o", "r">>,
      <<"t", "r", "u", "e">>,
      <<"f", "a", "l", "s", "e">>,
      <<"s", "t", "r", "i", "n", "g">>,
      <<"n", "u", "m", "b", "e", "r">>,
      <<"b", "o", "o", "l", "e", "a", "n">>,
      <<"t", "r", "a", "n", "s", "l", "a", "t", "e">>,
      <<"s", "u", "m">>,
      <<"l", "o", "c", "a", "l", "-", "n", "a", "m", "e">>,
      <<"n", "a", "m", "e">>,
      <<"n", "a", "m", "e", "s", "p", "a", "c", "e", "-", "u", "r", "i">>,
      <<"c", "o", "m", "m", "e", "n", "t">>,
      <<"p", "r", "o", "c", "e", "s", "s", "i", "n", "g", "-", "i", "n", "s", "t", "r", "u", "c", "t", "i", "o", "n">>,
      <<"n", "o", "d", "e">> }

\* str.strip()
RECURSIVE LStrip(_)
LStrip(p) == IF p # <<>> /\ Head(p) \in Whitespace THEN LStrip(Tail(p)) ELSE p

RECURSIVE RStrip(_)
RStrip(p) ==
    IF p # <<>> /\ p[Len(p)] \in Whitespace THEN RStrip(SubSeq(p, 1, Len(p) - 1)) ELSE p

Strip(p) == RStrip(LStrip(p))

\* str.count(c)
CountChar(p, c) == Cardinality({i \in 1..Len(p) : p[i] = c})

\* a pattern without \s*: a name counts only when the parenthesis follows it
\* at once
FunctionCalls_Adjacent(p) ==
    { SubSeq(p, se[1], se[2]) :
        se \in { x \in (1..Len(p)) \X (1..Len(p)) :
                   /\ x[1] <= x[2]
                   /\ p[x[1]] \in WordChars
                   /\ \A k \in x[1]..x[2] : p[k] \in WordChars \cup {"-"}
                   /\ \A k \in 1..(x[1] - 1) :
                        (\A m \in k..(x[1] - 1) : p[m] \in WordChars \cup {"-"})
                            => p[k] \notin WordChars
                   /\ x[2] + 1 <= Len(p)
                   /\ p[x[2] + 1] = "(" } }

\* function_call_pattern, (\w[\w-]*)\s*\( : the names it finds.  For an
\* opening parenthesis at j the name ends at e, the last character before
\* the white space in front of j, and starts at the first word character of
\* the run of word characters and hyphens that ends at e.
FunctionCalls(p) ==
    { SubSeq(p, se[1], se[2]) :
        se \in { x \in (1..Len(p)) \X (1..Len(p)) :
                   /\ x[1] <= x[2]
                   /\ p[x[1]] \in WordChars
                   /\ \A k \in x[1]..x[2] : p[k] \in WordChars \cup {"-"}
                   /\ \A k \in 1..(x[1] - 1) :
                        (\A m \in k..(x[1] - 1) : p[m] \in WordChars \cup {"-"})
                            => p[k] \notin WordChars
                   /\ \E j \in (x[2] + 1)..Len(p) :
                        /\ p[j] = "("
                        /\ \A k \in (x[2] + 1)..(j - 1) : p[k] \in Whitespace } }

\* the nesting depth after the first n characters, lines 206-213
RECURSIVE DepthAt(_, _)
DepthAt(p, n) ==
    IF n = 0 THEN 0
    ELSE DepthAt(p, n - 1)
         + (IF p[n] \in {"[", "("} THEN 1 ELSE IF p[n] \in {"]", ")"} THEN -1 ELSE 0)

MaxDepth(p) ==
    IF p = <<>> THEN 0
    ELSE CHOOSE d \in {DepthAt(p, n) : n \in 0..Len(p)} :
            \A n \in 0..Len(p) : DepthAt(p, n) <= d

\* validate_xpath_query: "ok" or the reason of the ValidationError
validate_xpath_query(raw) ==
    LET xpath == Strip(raw)
    IN  IF raw = <<>> THEN "empty"
        ELSE IF Len(xpath) > MAX_XPATH_LENGTH THEN "too_long"
        ELSE IF \E f \in FunctionCalls(xpath) : f \notin ALLOWED_XPATH_FUNCTIONS
             THEN "function_not_allowed"
        ELSE IF CountChar(xpath, "[") # CountChar(xpath, "]") THEN "unbalanced_brackets"
        ELSE IF CountChar(xpath, "(") # CountChar(xpath, ")") THEN "unbalanced_parentheses"
        ELSE IF MaxDepth(xpath) > MAX_NESTING_DEPTH THEN "too_deep"
        ELSE "ok"

\* re.compile, for the syntax errors the patterns here can have: a
\* parenthesis without its partner, or a quantifier with nothing to repeat
RECURSIVE ParenDepth(_, _)
ParenDepth(p, n) ==
    IF n = 0 THEN 0
    ELSE ParenDepth(p, n - 1)
         + (IF p[n] = "(" THEN 1 ELSE IF p[n] = ")" THEN -1 ELSE 0)

Compiles(p) ==
    /\ \A n \in 1..Len(p) : ParenDepth(p, n) >= 0
    /\ ParenDepth(p, Len(p)) = 0
    /\ \A i \in 1..Len(p) :
          p[i] \in {"*", "+", "?"} => (i > 1 /\ p[i - 1] \notin {"(", "|"})

\* nested_quantifier_pattern, \([^)]*[*+]\)[*+]
NestedQuantifier(p) ==
    \E i, j \in 1..Len(p) :
        /\ i + 2 <= j
        /\ j + 1 <= Len(p)
        /\ p[i] = "("
        /\ \A k \in (i + 1)..(j - 1) : p[k] # ")"
        /\ p[j - 1] \in {"*", "+"}
        /\ p[j] = ")"
        /\ p[j + 1] \in {"*", "+"}

\* the pieces of s between the separators c: str.split(c)
RECURSIVE Split(_, _)
Split(s, c) ==
    IF \A i \in 1..Len(s) : s[i] # c THEN <<s>>
    ELSE LET k == CHOOSE i \in 1..Len(s) : s[i] = c /\ \A m \in 1..(i - 1) : s[m] # c
         IN  <<SubSeq(s, 1, k - 1)>> \o Split(SubSeq(s, k + 1, Len(s)), c)

\* re.sub(r'[*+?{}\[\]]', '', alt).strip()
IsPlainChar(ch) == ch \notin {"*", "+", "?", "{", "}", "[", "]"}
Clean(alt) == Strip(SelectSeq(alt, IsPlainChar))

StartsWith(a, b) == Len(b) <= Len(a) /\ SubSeq(a, 1, Len(b)) = b

\* lines 269-287: a group \(([^()]*\|[^()]*)\) two of whose alternatives,
\* cleaned, are a prefix of one another
AlternationOverlap(p) ==
    \E i, j \in 1..Len(p) :
        /\ i < j
        /\ p[i] = "("
        /\ p[j] = ")"
        /\ \A k \in (i + 1)..(j - 1) : p[k] \notin {"(", ")"}
        /\ \E k \in (i + 1)..(j - 1) : p[k] = "|"
        /\ LET alternatives == Split(SubSeq(p, i + 1, j - 1), "|")
           IN  \E a, b \in 1..Len(alternatives) :
                  /\ a # b
                  /\ alternatives[a] # <<>>
                  /\ alternatives[b] # <<>>
                  /\ Clean(alternatives[a]) # <<>>
                  /\ Clean(alternatives[b]) # <<>>
                  /\ \/ StartsWith(Clean(alternatives[a]), Clean(alternatives[b]))
                     \/ StartsWith(Clean(alternatives[b]), Clean(alternatives[a]))

\* quantified_alternation_pattern, \([^)]*[*+][^)]*\|[^)]*\)[*+]
QuantifiedAlternation(p) ==
    \E i, a, b, j \in 1..Len(p) :
        /\ i < a /\ a < b /\ b < j
        /\ j + 1 <= Len(p)
        /\ p[i] = "("
        /\ p[a] \in {"*", "+"}
        /\ p[b] = "|"
        /\ p[j] = ")"
        /\ \A k \in (i + 1)..(j - 1) : p[k] # ")"
        /\ p[j + 1] \in {"*", "+"}

\* line 298: the matches of (?<!\\)[*+?]|\{[\d,]+\}
QuantifierCount(p) ==
    Cardinality({ i \in 1..Len(p) :
                    /\ p[i] \in {"*", "+", "?"}
                    /\ ~(i > 1 /\ p[i - 1] = "\\") })
    + Cardinality({ i \in 1..Len(p) :
                      /\ p[i] = "{"
                      /\ \E j \in (i + 2)..Len(p) :
                            /\ p[j] = "}"
                            /\ \A k \in (i + 1)..(j - 1) : p[k] \in Digits \cup {","} })

\* validate_regex_pattern: "ok" or the reason of the ValidationError
validate_regex_pattern(raw) ==
    LET pattern == Strip(raw)
    IN  IF raw = <<>> THEN "empty"
        ELSE IF Len(pattern) > MAX_REGEX_PATTERN_LENGTH THEN "too_long"
        ELSE IF ~Compiles(pattern) THEN "invalid"
        ELSE IF NestedQuantifier(pattern) THEN "nested_quantifiers"
        ELSE IF AlternationOverlap(pattern) THEN "overlapping_alternation"
        ELSE IF QuantifiedAlternation(pattern) THEN "quantified_alternation"
        ELSE IF QuantifierCount(pattern) > MAX_REGEX_QUANTIFIERS THEN "too_complex"
        ELSE "ok"

\* validate_jsonpath_query: "ok" or the reason of the ValidationError
validate_jsonpath_query(raw) ==
    LET jsonpath == Strip(raw)
    IN  IF raw = <<>> THEN "empty"
        ELSE IF Len(jsonpath) > MAX_QUERY_SELECTOR_LENGTH THEN "too_long"
        ELSE IF jsonpath = <<>> \/ jsonpath[1] \notin {"$", "@"} THEN "bad_start"
        ELSE IF CountChar(jsonpath, "[") # CountChar(jsonpath, "]") THEN "unbalanced_brackets"
        ELSE "ok"

valid_types == {"xpath", "regex", "jsonpath", "pdf_text", "pdf_table", "pdf_metadata"}
pdf_types == {"pdf_text", "pdf_table", "pdf_metadata"}

\* line 385: query.get('selector') or query.get('query') or ''
SelectorOf(query) == IF query.selector # <<>> THEN query.selector ELSE query.query

\* validate_query: "ok" or the reason of the ValidationError
validate_query(query) ==
    IF query.name = "" THEN "bad_name"
    ELSE IF query.type \notin valid_types THEN "bad_type"
    ELSE IF query.type \notin pdf_types /\ SelectorOf(query) = <<>> THEN "no_selector"
    ELSE IF query.type = "xpath" THEN validate_xpath_query(SelectorOf(query))
    ELSE IF query.type = "regex" THEN validate_regex_pattern(SelectorOf(query))
    ELSE IF query.type = "jsonpath" THEN validate_jsonpath_query(SelectorOf(query))
    ELSE "ok"

\* a loop that validates each query and never compares the names
validate_queries_NoDuplicateCheck(queries) ==
    IF queries = <<>> THEN "no_queries"
    ELSE IF Len(queries) > MAX_QUERIES_PER_JOB THEN "too_many"
    ELSE IF \E i \in 1..Len(queries) : validate_query(queries[i]) # "ok"
         THEN "invalid_query"
    ELSE "ok"

\* lines 451-462: the query at i raises, being invalid or carrying the name
\* of an earlier query
RaisesAt(queries, i) ==
    \/ validate_query(queries[i]) # "ok"
    \/ \E k \in 1..(i - 1) : queries[k].name = queries[i].name

\* validate_queries: "ok" or the reason of the ValidationError, which is
\* that of the first query that raises
validate_queries(queries) ==
    IF queries = <<>> THEN "no_queries"
    ELSE IF Len(queries) > MAX_QUERIES_PER_JOB THEN "too_many"
    ELSE IF \E i \in 1..Len(queries) : RaisesAt(queries, i)
         THEN LET i == CHOOSE n \in 1..Len(queries) :
                          /\ RaisesAt(queries, n)
                          /\ \A k \in 1..(n - 1) : ~RaisesAt(queries, k)
              IN  IF validate_query(queries[i]) # "ok" THEN "invalid_query"
                  ELSE "duplicate_name"
    ELSE "ok"

(***************************************************************************)
(* Inputs: the queries a client may submit and the pages a fetch may give. *)
(***************************************************************************)
Q(name, type, selector, query, join) ==
    [name |-> name, type |-> type, selector |-> selector, query |-> query, join |-> join]

X_Title == <<"/", "/", "t", "i", "t", "l", "e", "/", "t", "e", "x", "t", "(", ")">>
X_Links == <<"/", "/", "a", "/", "@", "h", "r", "e", "f">>
R_Phone == <<"\\", "d", "{", "3", "}", "-", "\\", "d", "{", "4", "}">>
R_Plain == <<"a", "b", "c">>
R_Nested == <<"(", "a", "+", ")", "+">>
J_Item == <<"$", ".", "a">>

SampleQueries ==
    { Q("title", "xpath", <<>>, X_Title, FALSE),
      Q("links", "xpath", X_Links, <<>>, TRUE),
      Q("phone", "regex", <<>>, R_Phone, TRUE),
      Q("title", "regex", <<>>, R_Nested, FALSE),
      Q("both", "regex", R_Plain, R_Nested, FALSE),
      Q("item", "jsonpath", <<>>, J_Item, FALSE),
      Q("title", "jsonpath", J_Item, <<>>, FALSE),
      Q("doc", "pdf_text", <<>>, R_Nested, FALSE),
      Q("meta", "pdf_metadata", <<>>, <<>>, FALSE),
      Q("odd", "unknown_type", <<>>, R_Plain, FALSE),
      Q("odd", "unknown_type", R_Plain, <<>>, FALSE) }

QueryNames == {q.name : q \in SampleQueries}

QueryLists == SeqsUpTo(SampleQueries, MaxQueries)

\* the page: what it is, and whether etree.HTML can parse it
Contents == {"html", "json", "pdf"}

\* what evaluating one expression gives: its matches, an exception, the
\* five-second alarm of safe_regex_findall, or a PDF whose text cannot be
\* extracted
EvalOutcomes ==
    { [kind |-> "matches", n |-> k] : k \in 0..MaxMatches }
    \cup { [kind |-> k, n |-> 0] : k \in {"raises", "timeout", "no_text"} }

\* an entry of extracted_data: absent, None, a list of n matches, the n
\* matches joined with '|', or whatever the PDF handler returns
Absent == [kind |-> "absent", n |-> 0]
Null == [kind |-> "null", n |-> 0]
ListOf(n) == [kind |-> "list", n |-> n]
Joined(n) == [kind |-> "joined", n |-> n]
PdfData == [kind |-> "pdf_data", n |-> 0]

\* lines 201-205
JoinOrList(join_flag, n) == IF join_flag /\ n > 0 THEN Joined(n) ELSE ListOf(n)

\* is_pdf_content
is_pdf_content(content) == content = "pdf"

\* line 132
has_html_queries(queries) ==
    \E i \in 1..Len(queries) : queries[i].type \in {"xpath", "regex"}

\* line 148: a query without an expression under 'query' is passed over,
\* unless it is a PDF query
Skipped(query) == query.query = <<>> /\ query.type \notin pdf_types

\* lines 151-209 for one query: [entry, evaluated]: its entry in
\* extracted_data and the expression handed to an evaluator (<<>>: none)
RunQuery(query, content, tree, out) ==
    LET none == <<>>
        res(entry, evaluated) == [entry |-> entry, evaluated |-> evaluated]
    IN  IF query.type = "xpath"
        THEN IF ~tree THEN res(Null, none)
             ELSE IF out.kind = "matches"
                  THEN res(JoinOrList(query.join, out.n), query.query)
                  ELSE res(Null, query.query)
        ELSE IF query.type = "regex"
        THEN IF is_pdf_content(content) /\ out.kind = "no_text" THEN res(Null, none)
             ELSE IF out.kind = "matches"
                  THEN res(JoinOrList(query.join, out.n), query.query)
                  ELSE res(Null, query.query)
        ELSE IF query.type = "jsonpath"
        THEN IF content # "json" THEN res(Null, none)
             ELSE IF out.kind = "matches"
                  THEN res(JoinOrList(query.join, out.n), query.query)
                  ELSE res(Null, query.query)
        ELSE IF query.type \in pdf_types
        THEN IF ~is_pdf_content(content) THEN res(Null, none)
             ELSE IF out.kind = "no_text" THEN res(Null, none)
             ELSE IF query.type = "pdf_text" /\ query.query # <<>>
                  THEN IF out.kind = "matches"
                       THEN res(JoinOrList(query.join, out.n), query.query)
                       ELSE res(Null, query.query)
             ELSE IF out.kind = "matches" THEN res(PdfData, none)
             ELSE res(Null, none)
        ELSE res(Null, none)

\* the outcomes an evaluation of this query on this page can have: only
\* safe_regex_findall has an alarm, only a PDF has text to extract
Possible(query, content, out) ==
    /\ out.kind = "timeout" => query.type = "regex"
    /\ out.kind = "no_text" => is_pdf_content(content)

\* crawler.py, execute_query: a bare match (results[0])
Scalar == [kind |-> "scalar", n |-> 1]

\* crawler.py lines 85-90: the joined string, the list of several matches,
\* the only match by itself, or None
JoinListOrScalar(join_flag, n) ==
    IF join_flag /\ n > 0 THEN Joined(n)
    ELSE IF n > 1 THEN ListOf(n)
    ELSE IF n = 1 THEN Scalar
    ELSE Null

\* crawler.py lines 40-95, execute_query: what it returns; the expression is
\* query.get("selector") or query.get("query")
execute_query(content, query, out) ==
    IF SelectorOf(query) = <<>> THEN Null
    ELSE IF query.type \in {"xpath", "regex"}
    THEN IF out.kind = "matches" THEN JoinListOrScalar(query.join, out.n) ELSE Null
    ELSE IF query.type = "jsonpath"
    THEN IF content # "json" THEN Null
         ELSE IF out.kind = "matches" THEN JoinListOrScalar(query.join, out.n)
         ELSE Null
    ELSE Null

NoExec == [done |-> FALSE, query |-> Q("", "", <<>>, <<>>, FALSE),
           out |-> [kind |-> "none", n |-> 0], result |-> Absent]

NoStep == [skipped |-> FALSE, tree |-> FALSE, out |-> [kind |-> "none", n |-> 0],
           entry |-> Absent, evaluated |-> <<>>]

QueryIdle ==
    /\ qSubmitted = <<>>
    /\ qContent = "html"
    /\ qCreated = "idle"
    /\ qStored = <<>>
    /\ pqPc = "idle"
    /\ pqQueries = <<>>
    /\ pqIdx = 0
    /\ html_tree = FALSE
    /\ extracted_data = [n \in QueryNames |-> Absent]
    /\ pqLog = <<>>
    /\ pqReturned = FALSE
    /\ eqCall = NoExec

\* a client has a query list to submit, or process_queries is about to be
\* called with it as it is
QueryInit ==
    /\ qSubmitted \in QueryLists
    /\ qContent \in Contents
    /\ qCreated = "none"
    /\ qStored = <<>>
    /\ pqPc = "idle"
    /\ pqQueries = <<>>
    /\ pqIdx = 0
    /\ html_tree = FALSE
    /\ extracted_data = [n \in QueryNames |-> Absent]
    /\ pqLog = <<>>
    /\ pqReturned = FALSE
    /\ eqCall = NoExec

\* create_job_handler (handler.py 168-174): validate_job_data raises on a
\* query list validate_queries refuses and returns nothing otherwise; the
\* job is then created from the job data as submitted
CreateJob ==
    /\ pqPc = "idle"
    /\ qCreated = "none"
    /\ IF validate_queries(qSubmitted) = "ok"
       THEN /\ qCreated' = "stored"
            /\ qStored' = qSubmitted
       ELSE /\ qCreated' = "rejected"
            /\ UNCHANGED qStored
    /\ UNCHANGED <<qSubmitted, qContent, pqPc, pqQueries, pqIdx, html_tree, extracted_data,
                   pqLog, pqReturned, eqCall>>

\* process_queries, lines 124-139: called by process_job with the stored
\* job's queries (job_manager.py 277, 365), or directly with a query list;
\* parsed tells whether etree.HTML can parse the page
PqStart(parsed) ==
    /\ pqPc = "idle"
    /\ qCreated \in {"none", "stored"}
    /\ ~eqCall.done
    /\ LET queries == IF qCreated = "stored" THEN qStored ELSE qSubmitted
       IN  /\ pqQueries' = queries
           /\ html_tree' = (~is_pdf_content(qContent) /\ has_html_queries(queries) /\ parsed)
           /\ pqPc' = IF queries = <<>> THEN "done" ELSE "loop"
           /\ pqReturned' = (queries = <<>>)
    /\ pqIdx' = 1
    /\ UNCHANGED <<qSubmitted, qContent, qCreated, qStored, extracted_data, pqLog, eqCall>>

\* lines 141-211: one pass through the loop; after the last query
\* process_queries returns extracted_data
PqStep(out) ==
    /\ pqPc = "loop"
    /\ LET query == pqQueries[pqIdx]
           r == RunQuery(query, qContent, html_tree, out)
       IN  /\ Possible(query, qContent, out)
           /\ IF Skipped(query)
              THEN /\ pqLog' = Append(pqLog, [NoStep EXCEPT !.skipped = TRUE,
                                                           !.tree = html_tree, !.out = out])
                   /\ UNCHANGED extracted_data
              ELSE /\ extracted_data' = [extracted_data EXCEPT ![query.name] = r.entry]
                   /\ pqLog' = Append(pqLog, [skipped |-> FALSE, tree |-> html_tree,
                                              out |-> out, entry |-> r.entry,
                                              evaluated |-> r.evaluated])
           /\ pqIdx' = pqIdx + 1
           /\ pqPc' = IF pqIdx = Len(pqQueries) THEN "done" ELSE "loop"
           /\ pqReturned' = (pqIdx = Len(pqQueries))
    /\ UNCHANGED <<qSubmitted, qContent, qCreated, qStored, pqQueries, html_tree, eqCall>>

\* crawler.py lines 31-33: crawl_url hands the page and one of the job's
\* queries to execute_query, whose re.findall has no alarm
ExecuteQuery(k, out) ==
    /\ pqPc = "idle"
    /\ ~eqCall.done
    /\ k \in 1..Len(qSubmitted)
    /\ out.kind \in {"matches", "raises"}
    /\ eqCall' = [done |-> TRUE, query |-> qSubmitted[k], out |-> out,
                  result |-> execute_query(qContent, qSubmitted[k], out)]
    /\ UNCHANGED <<qSubmitted, qContent, qCreated, qStored, pqPc, pqQueries, pqIdx,
                   html_tree, extracted_data, pqLog, pqReturned>>

(***************************************************************************)
(* The specifications.                                                     *)
(***************************************************************************)
(* The expression validators applied to single expressions:                *)
(* validators.py, validate_xpath_query and validate_regex_pattern.         *)
(*                                                                         *)
(* An input is [type, parts]: the expression is the concatenation of its   *)
(* parts.  An XPath input is <<head, name, gap, tail>>: a path, a name,    *)
(* the white space after it and what follows, which makes the name a       *)
(* function call when it starts with a parenthesis.  A regex input is      *)
(* <<prefix, body, suffix>>.                                               *)
(***************************************************************************)

\* what stands before the name
XPathHeads ==
    { <<>>,
      <<"/", "/", "a", "/">>,
      <<"/", "/", "d", "i", "v", "[">>,
      <<"/", "/", "p", "]", "/">> }

\* the name: four functions of the whitelist, two outside it
XPathNames ==
    { <<"t", "e", "x", "t">>,
      <<"c", "o", "n", "t", "a", "i", "n", "s">>,
      <<"c", "o", "u", "n", "t">>,
      <<"s", "t", "a", "r", "t", "s", "-", "w", "i", "t", "h">>,
      <<"d", "o", "c", "u", "m", "e", "n", "t">>,
      <<"s", "y", "s", "t", "e", "m", "-", "p", "r", "o", "p", "e", "r", "t", "y">> }

\* the white space between the name and what follows
XPathGaps ==
    { <<>>,
      <<" ">> }

\* what follows the name
XPathTails ==
    { <<>>,
      <<"(", ")">>,
      <<"(", ")", "]">>,
      <<"(", ")", "[">>,
      <<"(", "'", "x", ".", "x", "m", "l", "'", ")">>,
      <<"(", "@", "c", "l", "a", "s", "s", ",", "'", "a", "'", ")", "]">> }

\* zero to three quantifiers in front
RegexPrefixes ==
    { <<>>,
      <<"a", "+">>,
      <<"a", "+", "b", "*">>,
      <<"a", "+", "b", "*", "c", "?">> }

\* quantifiers, escaped literals and quantified groups
RegexBodies ==
    { <<"x">>,
      <<"d", "{", "3", "}">>,
      <<"\\", "{", "3", "}">>,
      <<"\\", "+">>,
      <<"\\", "\\", "+">>,
      <<"(", "a", "+", ")">>,
      <<"(", "a", "+", ")", "+">>,
      <<"(", "a", "+", ")", "{", "2", ",", "}">>,
      <<"(", "a", "\\", "+", ")", "+">>,
      <<"\\", "d", "{", "3", "}", "-", "\\", "d", "{", "4", "}">> }

\* zero to three quantifiers behind
RegexSuffixes ==
    { <<>>,
      <<"e", "+">>,
      <<"e", "+", "f", "*">>,
      <<"e", "+", "f", "*", "g", "?">> }

RECURSIVE Concat(_)
Concat(parts) == IF parts = <<>> THEN <<>> ELSE Head(parts) \o Concat(Tail(parts))

ExprInputs ==
    { [type |-> "xpath", parts |-> <<h, n, g, t>>] :
        h \in XPathHeads, n \in XPathNames, g \in XPathGaps, t \in XPathTails }
    \cup
    { [type |-> "regex", parts |-> <<a, b, c>>] :
        a \in RegexPrefixes, b \in RegexBodies, c \in RegexSuffixes }

\* the expression as the validator receives it
ExprText == Concat(exprInput.parts)

\* no expression is being validated, for the specifications of the other
\* components
ExprIdle ==
    /\ exprInput = [type |-> "none", parts |-> <<>>]
    /\ exprVerdict = NoValue

ExprInit ==
    /\ exprInput \in ExprInputs
    /\ exprVerdict = NoValue

\* one call of validate_xpath_query
ValidateXPath ==
    /\ exprInput.type = "xpath"
    /\ exprVerdict = NoValue
    /\ exprVerdict' = validate_xpath_query(ExprText)
    /\ UNCHANGED exprInput

\* one call of validate_regex_pattern
ValidateRegex ==
    /\ exprInput.type = "regex"
    /\ exprVerdict = NoValue
    /\ exprVerdict' = validate_regex_pattern(ExprText)
    /\ UNCHANGED exprInput

(***************************************************************************)
(* The URL loop of process_job over a long job (job_manager.py 299-442).   *)
(* The fetch of a URL is reduced to how it ended; the counters, the        *)
(* progress cadence and the early returns are kept as coded.               *)
(***************************************************************************)
\* the largest number of URLs of the job followed through the loop
MaxRunUrls == 21

\* how the body of one iteration ends: the success branch, the failure
\* branch, or the except clause of lines 407-423
UrlOutcomes == {"success", "error", "exception"}

\* the progress map of lines 309-316 and 432-437
ProgressOf(processed, failed, total) ==
    [total |-> total, processed |-> processed, failed |-> failed,
     percentage |-> Percentage(processed, failed, total)]

\* one update_item that sets progress: the number of URLs handled when it
\* was issued, whether DynamoDB stored it, and the map it carried
ProgressWrite(after, ok, progress) ==
    [after |-> after, ok |-> ok, progress |-> progress]

LoopIdle ==
    /\ runTotal = 0
    /\ runIdx = 0
    /\ runProcessed = 0
    /\ runFailed = 0
    /\ runPc = "idle"
    /\ progressWrites = <<>>

\* lines 287-302: fetch_urls_for_job gave at least one URL (an empty list
\* has raised) and the counters start at zero
LoopInit ==
    /\ runTotal \in 1..MaxRunUrls
    /\ runIdx = 0
    /\ runProcessed = 0
    /\ runFailed = 0
    /\ runPc = "begin"
    /\ progressWrites = <<>>

\* lines 305-319: the first progress write, all zeros, together with the
\* status 'processing'; a failed write is printed and the run goes on
RunBegin(ok) ==
    /\ runPc = "begin"
    /\ progressWrites' = Append(progressWrites,
                                ProgressWrite(0, ok, [total |-> runTotal, processed |-> 0,
                                                      failed |-> 0, percentage |-> 0]))
    /\ runPc' = "loop"
    /\ UNCHANGED <<runTotal, runIdx, runProcessed, runFailed>>

\* lines 343-357: the timeout check or the cancellation check at the head
\* of an iteration returns from process_job; nothing more is written to
\* progress
RunStop(kind) ==
    /\ runPc = "loop"
    /\ runIdx < runTotal
    /\ runPc' = "returned"
    /\ UNCHANGED <<runTotal, runIdx, runProcessed, runFailed, progressWrites>>

\* lines 359-442: one URL. Exactly one of the three branches counts it, then
\* progress is written when line 426 says so; progok tells whether that
\* update_item works (a failure is caught and printed)
RunUrl(outcome, progok) ==
    /\ runPc = "loop"
    /\ runIdx < runTotal
    /\ LET processed == IF outcome = "success" THEN runProcessed + 1 ELSE runProcessed
           failed == IF outcome = "success" THEN runFailed ELSE runFailed + 1
           handled == runIdx + 1
       IN  /\ runProcessed' = processed
           /\ runFailed' = failed
           /\ runIdx' = handled
           /\ progressWrites' =
                 IF ProgressDue(handled, runTotal)
                 THEN Append(progressWrites,
                             ProgressWrite(handled, progok,
                                           ProgressOf(processed, failed, runTotal)))
                 ELSE progressWrites
           /\ runPc' = IF handled < runTotal THEN "loop" ELSE "after"
    /\ UNCHANGED runTotal


(***************************************************************************)
(* Deliveries of one job's queue message to Lambda workers (handler.py     *)
(* 499-522 and 677-773, job_manager.py 281-319 and 472-487).  Of           *)
(* process_job only the reads and writes of the job's status are kept.     *)
(***************************************************************************)
\* the Lambda invocations that may run process_job_handler at the same time
Workers == {"lambda1", "lambda2"}

\* how many times SQS hands a message of the job to a worker
MaxDeliveries == 2

WorkIdle ==
    /\ sqsMessages = 0
    /\ sqsDeliveries = 0
    /\ wkStatus = "ready"
    /\ wkPc = [w \in Workers |-> "idle"]
    /\ wkIdx = [w \in Workers |-> 0]

\* a job with a schedule and at least one URL, at rest
WorkInit ==
    /\ sqsMessages = 0
    /\ sqsDeliveries = 0
    /\ wkStatus = "ready"
    /\ wkPc = [w \in Workers |-> "idle"]
    /\ wkIdx = [w \in Workers |-> 0]

\* handler.py 689-771: schedule_jobs_handler scans for jobs whose status is
\* 'ready', sends the job to the queue and sets its status to 'queued'
ScheduleJob ==
    /\ wkStatus = "ready"
    /\ sqsMessages + sqsDeliveries < MaxDeliveries
    /\ sqsMessages' = sqsMessages + 1
    /\ wkStatus' = "queued"
    /\ UNCHANGED <<sqsDeliveries, wkPc, wkIdx>>

\* handler.py 508-522: SQS hands a message to an invocation of
\* process_job_handler, which calls process_job on it.  SQS delivers at
\* least once: with again, the message is handed out once more later (a
\* duplicate, or its visibility timeout ran out during the run)
Deliver(w, again) ==
    /\ wkPc[w] = "idle"
    /\ sqsMessages > 0
    /\ sqsDeliveries < MaxDeliveries
    /\ sqsDeliveries' = sqsDeliveries + 1
    /\ sqsMessages' = IF again THEN sqsMessages ELSE sqsMessages - 1
    /\ wkPc' = [wkPc EXCEPT ![w] = "start"]
    /\ wkIdx' = [wkIdx EXCEPT ![w] = 0]
    /\ UNCHANGED wkStatus

\* job_manager.py 281-285: the one check before the start; got tells
\* whether get_job could read the job
StartRefused(status, got) == got /\ status = "cancelled"

\* job_manager.py 281-297: the pre-start check
WorkerStart(w, got) ==
    /\ wkPc[w] = "start"
    /\ wkPc' = [wkPc EXCEPT ![w] = IF StartRefused(wkStatus, got) THEN "idle"
                                   ELSE "set_processing"]
    /\ UNCHANGED <<sqsMessages, sqsDeliveries, wkStatus, wkIdx>>

\* job_manager.py 305-319: the unconditional write of 'processing'
WorkerSetProcessing(w, ok) ==
    /\ wkPc[w] = "set_processing"
    /\ wkStatus' = IF ok THEN "processing" ELSE wkStatus
    /\ wkPc' = [wkPc EXCEPT ![w] = "loop"]
    /\ UNCHANGED <<sqsMessages, sqsDeliveries, wkIdx>>

\* job_manager.py 341-442: one pass of the loop: the cancellation check,
\* then the URL
WorkerUrl(w, got) ==
    /\ wkPc[w] = "loop"
    /\ IF got /\ wkStatus = "cancelled"
       THEN /\ wkPc' = [wkPc EXCEPT ![w] = "idle"]
            /\ UNCHANGED wkIdx
       ELSE /\ wkIdx' = [wkIdx EXCEPT ![w] = @ + 1]
            /\ wkPc' = [wkPc EXCEPT ![w] = IF wkIdx[w] + 1 < MaxUrls THEN "loop" ELSE "save"]
    /\ UNCHANGED <<sqsMessages, sqsDeliveries, wkStatus>>

\* job_manager.py 472-487 and handler.py 568-578: the unconditional write
\* of 'ready' after the run
WorkerFinish(w, ok) ==
    /\ wkPc[w] = "save"
    /\ wkStatus' = IF ok THEN "ready" ELSE wkStatus
    /\ wkPc' = [wkPc EXCEPT ![w] = "idle"]
    /\ UNCHANGED <<sqsMessages, sqsDeliveries, wkIdx>>

\* job_manager.py 223-263: cancel_job
WorkerCancel ==
    /\ wkStatus \in {"queued", "processing"}
    /\ wkStatus' = "cancelled"
    /\ UNCHANGED <<sqsMessages, sqsDeliveries, wkPc, wkIdx>>


(***************************************************************************)
(* Proxy rotation inside one fetch_url_with_session call                   *)
(* (backend/utils.py 368-411, backend/proxy_manager.py 29-157, 222-252).   *)
(* Proxies are numbered in the order of the pool list.                     *)
(***************************************************************************)
\* the largest proxy pool
MaxProxies == 3
\* the largest request_count a proxy starts with in the proxy table
MaxUsage == 1

Proxies == 1..MaxProxies
RotationStrategies == {"random", "round-robin", "other"}

\* proxy_manager.py 136-155: the proxy with the lowest request_count, the
\* first of them in the order of the list
RoundRobinProxy(pool, usage) ==
    CHOOSE p \in pool :
        /\ \A q \in pool : usage[p] <= usage[q]
        /\ \A q \in pool : (usage[q] = usage[p]) => p <= q

\* proxy_manager.py 93-116: the healthy proxies get_proxy_url may return
\* under a rotation strategy; the pool is the cached list of the secret, in
\* which a proxy's status does not change during the call
Selectable(strategy, pool, usage) ==
    IF strategy = "random" THEN pool
    ELSE IF strategy = "round-robin" THEN {RoundRobinProxy(pool, usage)}
    ELSE {CHOOSE p \in pool : \A q \in pool : p <= q}

ProxyIdle ==
    /\ pxPool = {}
    /\ pxStrategy = "random"
    /\ pxUsage = [p \in Proxies |-> 0]
    /\ pxFailures = [p \in Proxies |-> 0]
    /\ pxSession = 0
    /\ pxMaxRetries = 1
    /\ pxAttempt = 0
    /\ pxPc = "idle"

\* initialize_session (utils.py 509-529) has given the session a proxy of
\* the pool; max_retries is an integer (the default, or one passed as such)
ProxyInit ==
    /\ pxPool \in (SUBSET Proxies) \ {{}}
    /\ pxStrategy \in RotationStrategies
    /\ pxUsage \in [Proxies -> 0..MaxUsage]
    /\ pxFailures = [p \in Proxies |-> 0]
    /\ pxSession \in pxPool
    /\ pxMaxRetries \in 1..(MaxRetries + 1)
    /\ pxAttempt = 0
    /\ pxPc = "get"

\* utils.py 390-411: the response is a proxy error (407, 502, 504) and
\* attempts remain: mark_proxy_failed on the session's proxy (it adds one to
\* consecutive_failures in the proxy table), then get_proxy_url, whose
\* choice becomes the session's proxy for the next attempt
ProxyRotate(new_proxy) ==
    /\ pxPc = "get"
    /\ pxAttempt < pxMaxRetries - 1
    /\ new_proxy \in Selectable(pxStrategy, pxPool, pxUsage)
    /\ pxFailures' = [pxFailures EXCEPT ![pxSession] = @ + 1]
    /\ pxSession' = new_proxy
    /\ pxAttempt' = pxAttempt + 1
    /\ UNCHANGED <<pxPool, pxStrategy, pxUsage, pxMaxRetries, pxPc>>

\* utils.py 374-387 and 413-414: the attempt ends the call; a success is
\* counted by track_usage (request_count + 1), an error is returned as it is
ProxyReturn(success) ==
    /\ pxPc = "get"
    /\ pxUsage' = IF success THEN [pxUsage EXCEPT ![pxSession] = @ + 1] ELSE pxUsage
    /\ pxPc' = "done"
    /\ UNCHANGED <<pxPool, pxStrategy, pxFailures, pxSession, pxMaxRetries, pxAttempt>>


(***************************************************************************)
SsrfNext ==
    \/ ValidateUrl /\ UNCHANGED <<rateVars, tierVars, jobVars, queryVars, exprVars, concVars, loopVars, workVars, proxyVars>>
    \/ (\E addr \in SampleAddrs \ {BadAddr} : ClientConnect(addr))
           /\ UNCHANGED <<rateVars, tierVars, jobVars, queryVars, exprVars, concVars, loopVars, workVars, proxyVars>>

RateNext ==
    \/ Tick /\ UNCHANGED <<ssrfVars, tierVars, jobVars, queryVars, exprVars, concVars, loopVars, workVars, proxyVars>>
    \/ (\E url \in RateUrls : WaitCall(url)) /\ UNCHANGED <<ssrfVars, tierVars, jobVars, queryVars, exprVars, concVars, loopVars, workVars, proxyVars>>
    \/ WaitWake /\ UNCHANGED <<ssrfVars, tierVars, jobVars, queryVars, exprVars, concVars, loopVars, workVars, proxyVars>>
    \/ WaitRecord /\ UNCHANGED <<ssrfVars, tierVars, jobVars, queryVars, exprVars, concVars, loopVars, workVars, proxyVars>>

TierNext ==
    \/ TierStart /\ UNCHANGED <<ssrfVars, rateVars, jobVars, queryVars, exprVars, concVars, loopVars, workVars, proxyVars>>
    \/ (\E net \in NetOutcomes : TierAttempt(net)) /\ UNCHANGED <<ssrfVars, rateVars, jobVars, queryVars, exprVars, concVars, loopVars, workVars, proxyVars>>
    \/ TierHandle /\ UNCHANGED <<ssrfVars, rateVars, jobVars, queryVars, exprVars, concVars, loopVars, workVars, proxyVars>>

Next ==
    \/ JobTick /\ UNCHANGED <<ssrfVars, rateVars, tierVars, queryVars, exprVars, concVars, loopVars, workVars, proxyVars>>
    \/ CancelJob /\ UNCHANGED <<ssrfVars, rateVars, tierVars, queryVars, exprVars, concVars, loopVars, workVars, proxyVars>>
    \/ (\E got \in BOOLEAN : JobStart(got)) /\ UNCHANGED <<ssrfVars, rateVars, tierVars, queryVars, exprVars, concVars, loopVars, workVars, proxyVars>>
    \/ (\E ok \in BOOLEAN : SetProcessing(ok)) /\ UNCHANGED <<ssrfVars, rateVars, tierVars, queryVars, exprVars, concVars, loopVars, workVars, proxyVars>>
    \/ (\E proxy_url \in BOOLEAN : InitSession(proxy_url))
           /\ UNCHANGED <<ssrfVars, rateVars, tierVars, queryVars, exprVars, concVars, loopVars, workVars, proxyVars>>
    \/ (\E ok \in BOOLEAN : LoopCheck(ok)) /\ UNCHANGED <<ssrfVars, rateVars, tierVars, queryVars, exprVars, concVars, loopVars, workVars, proxyVars>>
    \/ FetchValidate /\ UNCHANGED <<ssrfVars, rateVars, tierVars, queryVars, exprVars, concVars, loopVars, workVars, proxyVars>>
    \/ (\E out \in RenderOutcomes : FetchRender(out))
           /\ UNCHANGED <<ssrfVars, rateVars, tierVars, queryVars, exprVars, concVars, loopVars, workVars, proxyVars>>
    \/ (\E net \in HttpOutcomes, new_proxy \in BOOLEAN : FetchGet(net, new_proxy))
           /\ UNCHANGED <<ssrfVars, rateVars, tierVars, queryVars, exprVars, concVars, loopVars, workVars, proxyVars>>
    \/ (\E progok \in BOOLEAN : RecordUrl(progok))
           /\ UNCHANGED <<ssrfVars, rateVars, tierVars, queryVars, exprVars, concVars, loopVars, workVars, proxyVars>>
    \/ (\E ok \in BOOLEAN : FinishJob(ok)) /\ UNCHANGED <<ssrfVars, rateVars, tierVars, queryVars, exprVars, concVars, loopVars, workVars, proxyVars>>
    \/ (\E ok \in BOOLEAN : HandlerFinish(ok)) /\ UNCHANGED <<ssrfVars, rateVars, tierVars, queryVars, exprVars, concVars, loopVars, workVars, proxyVars>>

QueryNext ==
    \/ CreateJob /\ UNCHANGED <<ssrfVars, rateVars, tierVars, jobVars, exprVars, concVars, loopVars, workVars, proxyVars>>
    \/ (\E parsed \in BOOLEAN : PqStart(parsed))
           /\ UNCHANGED <<ssrfVars, rateVars, tierVars, jobVars, exprVars, concVars, loopVars, workVars, proxyVars>>
    \/ (\E out \in EvalOutcomes : PqStep(out))
           /\ UNCHANGED <<ssrfVars, rateVars, tierVars, jobVars, exprVars, concVars, loopVars, workVars, proxyVars>>
    \/ (\E k \in 1..MaxQueries, out \in EvalOutcomes : ExecuteQuery(k, out))
           /\ UNCHANGED <<ssrfVars, rateVars, tierVars, jobVars, exprVars, concVars, loopVars, workVars, proxyVars>>

\* one call of fetch_url_with_session
FetchNext ==
    \/ FetchValidate /\ UNCHANGED <<ssrfVars, rateVars, tierVars, queryVars, exprVars, concVars, loopVars, workVars, proxyVars>>
    \/ (\E out \in RenderOutcomes : FetchRender(out))
           /\ UNCHANGED <<ssrfVars, rateVars, tierVars, queryVars, exprVars, concVars, loopVars, workVars, proxyVars>>
    \/ (\E net \in HttpOutcomes, new_proxy \in BOOLEAN : FetchGet(net, new_proxy))
           /\ UNCHANGED <<ssrfVars, rateVars, tierVars, queryVars, exprVars, concVars, loopVars, workVars, proxyVars>>

\* job creation alone: create_job_handler applied to a submitted query list
CreateNext ==
    \/ CreateJob /\ UNCHANGED <<ssrfVars, rateVars, tierVars, jobVars, exprVars, concVars, loopVars, workVars, proxyVars>>

ExprNext ==
    \/ ValidateXPath /\ UNCHANGED <<ssrfVars, rateVars, tierVars, jobVars, queryVars, concVars, loopVars, workVars, proxyVars>>
    \/ ValidateRegex /\ UNCHANGED <<ssrfVars, rateVars, tierVars, jobVars, queryVars, concVars, loopVars, workVars, proxyVars>>

ConcNext ==
    \/ Tick /\ UNCHANGED <<ssrfVars, tierVars, jobVars, queryVars, exprVars, concVars, loopVars, workVars, proxyVars>>
    \/ (\E t \in Callers, url \in RateUrls : ConcCall(t, url))
           /\ UNCHANGED <<ssrfVars, tierVars, jobVars, queryVars, exprVars, loopVars, workVars, proxyVars>>
    \/ (\E t \in Callers : ConcWake(t))
           /\ UNCHANGED <<ssrfVars, tierVars, jobVars, queryVars, exprVars, loopVars, workVars, proxyVars>>
    \/ (\E t \in Callers : ConcRecord(t))
           /\ UNCHANGED <<ssrfVars, tierVars, jobVars, queryVars, exprVars, loopVars, workVars, proxyVars>>

InitSSRF == SsrfInit /\ RateIdle /\ TierIdle /\ JobIdle /\ QueryIdle /\ ExprIdle /\ ConcIdle /\ LoopIdle /\ WorkIdle /\ ProxyIdle
InitRate == SsrfIdle /\ RateInit /\ TierIdle /\ JobIdle /\ QueryIdle /\ ExprIdle /\ ConcIdle /\ LoopIdle /\ WorkIdle /\ ProxyIdle
InitTier == SsrfIdle /\ RateIdle /\ TierInit /\ JobIdle /\ QueryIdle /\ ExprIdle /\ ConcIdle /\ LoopIdle /\ WorkIdle /\ ProxyIdle
InitQuery == SsrfIdle /\ RateIdle /\ TierIdle /\ JobIdle /\ QueryInit /\ ExprIdle /\ ConcIdle /\ LoopIdle /\ WorkIdle /\ ProxyIdle
Init == SsrfIdle /\ RateIdle /\ TierIdle /\ JobInit /\ QueryIdle /\ ExprIdle /\ ConcIdle /\ LoopIdle /\ WorkIdle /\ ProxyIdle
InitExpr == SsrfIdle /\ RateIdle /\ TierIdle /\ JobIdle /\ QueryIdle /\ ExprInit /\ ConcIdle /\ LoopIdle /\ WorkIdle /\ ProxyIdle

InitFetch == SsrfIdle /\ RateIdle /\ TierIdle /\ FetchInit /\ QueryIdle /\ ExprIdle /\ ConcIdle /\ LoopIdle /\ WorkIdle /\ ProxyIdle
InitLoop == SsrfIdle /\ RateIdle /\ TierIdle /\ JobIdle /\ QueryIdle /\ ExprIdle /\ ConcIdle /\ LoopInit /\ WorkIdle /\ ProxyIdle

\* the URL loop of process_job alone, followed over a long job
LoopNext ==
    \/ (\E ok \in BOOLEAN : RunBegin(ok))
           /\ UNCHANGED <<ssrfVars, rateVars, tierVars, jobVars, queryVars, exprVars, concVars, workVars, proxyVars>>
    \/ (\E kind \in {"timeout", "cancelled"} : RunStop(kind))
           /\ UNCHANGED <<ssrfVars, rateVars, tierVars, jobVars, queryVars, exprVars, concVars, workVars, proxyVars>>
    \/ (\E outcome \in UrlOutcomes, progok \in BOOLEAN : RunUrl(outcome, progok))
           /\ UNCHANGED <<ssrfVars, rateVars, tierVars, jobVars, queryVars, exprVars, concVars, workVars, proxyVars>>

InitWorkers == SsrfIdle /\ RateIdle /\ TierIdle /\ JobIdle /\ QueryIdle /\ ExprIdle /\ ConcIdle /\ LoopIdle /\ WorkInit /\ ProxyIdle

\* the scheduler, the queue, the workers and a user who cancels
WorkNext ==
    \/ ScheduleJob /\ UNCHANGED <<ssrfVars, rateVars, tierVars, jobVars, queryVars, exprVars, concVars, loopVars, proxyVars>>
    \/ WorkerCancel /\ UNCHANGED <<ssrfVars, rateVars, tierVars, jobVars, queryVars, exprVars, concVars, loopVars, proxyVars>>
    \/ (\E w \in Workers, again \in BOOLEAN : Deliver(w, again))
           /\ UNCHANGED <<ssrfVars, rateVars, tierVars, jobVars, queryVars, exprVars, concVars, loopVars, proxyVars>>
    \/ (\E w \in Workers, got \in BOOLEAN : WorkerStart(w, got))
           /\ UNCHANGED <<ssrfVars, rateVars, tierVars, jobVars, queryVars, exprVars, concVars, loopVars, proxyVars>>
    \/ (\E w \in Workers, ok \in BOOLEAN : WorkerSetProcessing(w, ok))
           /\ UNCHANGED <<ssrfVars, rateVars, tierVars, jobVars, queryVars, exprVars, concVars, loopVars, proxyVars>>
    \/ (\E w \in Workers, got \in BOOLEAN : WorkerUrl(w, got))
           /\ UNCHANGED <<ssrfVars, rateVars, tierVars, jobVars, queryVars, exprVars, concVars, loopVars, proxyVars>>
    \/ (\E w \in Workers, ok \in BOOLEAN : WorkerFinish(w, ok))
           /\ UNCHANGED <<ssrfVars, rateVars, tierVars, jobVars, queryVars, exprVars, concVars, loopVars, proxyVars>>

InitProxy == SsrfIdle /\ RateIdle /\ TierIdle /\ JobIdle /\ QueryIdle /\ ExprIdle /\ ConcIdle /\ LoopIdle /\ WorkIdle /\ ProxyInit

\* the retry loop of one fetch through proxies
ProxyNext ==
    \/ (\E new_proxy \in Proxies : ProxyRotate(new_proxy))
           /\ UNCHANGED <<ssrfVars, rateVars, tierVars, jobVars, queryVars, exprVars, concVars, loopVars, workVars>>
    \/ (\E success \in BOOLEAN : ProxyReturn(success))
           /\ UNCHANGED <<ssrfVars, rateVars, tierVars, jobVars, queryVars, exprVars, concVars, loopVars, workVars>>

SpecSSRF == InitSSRF /\ [][SsrfNext]_vars
SpecRate == InitRate /\ [][RateNext]_vars
SpecRateConc == InitRate /\ [][ConcNext]_vars
SpecTier == InitTier /\ [][TierNext]_vars
SpecQuery == InitQuery /\ [][QueryNext]_vars
SpecCreate == InitQuery /\ [][CreateNext]_vars
SpecExpr == InitExpr /\ [][ExprNext]_vars
Spec == Init /\ [][Next]_vars
SpecFetch == InitFetch /\ [][FetchNext]_vars
SpecLoop == InitLoop /\ [][LoopNext]_vars
SpecWorkers == InitWorkers /\ [][WorkNext]_vars
SpecProxy == InitProxy /\ [][ProxyNext]_vars
\* smart_scrape is one sequential call: each of its steps is taken once it
\* is due (every request of a tier carries a timeout, lines 170 and 289)
SpecTierLive == InitTier /\ [][TierNext]_vars /\ WF_vars(TierNext)

(***************************************************************************)
(* The claims.                                                             *)
(***************************************************************************)

\* C2: validate_scrape_url rejects a URL whenever at least one of the
\* addresses its hostname resolves to lies in a blocked range, however many
\* of the other addresses are public and in whatever order they come.
C2_AnyBlockedAddressRejects ==
    ( /\ ssrfVerdict # NoValue
      /\ \E i \in 1..Len(ssrfInput.answer.addrs) :
            _is_ip_blocked(ssrfInput.answer.addrs[i]) )
    => ssrfVerdict # "ok"

\* a URL rejected for its last address although its first one is public
C2_Witness ==
    /\ ssrfVerdict = "blocked_ip"
    /\ Len(ssrfInput.answer.addrs) >= 2
    /\ ~_is_ip_blocked(ssrfInput.answer.addrs[1])
    /\ _is_ip_blocked(ssrfInput.answer.addrs[Len(ssrfInput.answer.addrs)])

C3_StepAsClaimed ==
    tsState \in {"Blocked", "Unavailable", "Error"} =>
        IF tsCfg.auto_escalate /\ current_tier < tsCfg.max_tier
        THEN tsState' = "Attempting" /\ current_tier' = current_tier + 1
        ELSE /\ tsState' = "Exhausted"
             /\ tsOut'.kind = "raised"
             /\ tsOut'.reason = tsLast.kind

C3_StepAmended ==
    /\ tsState \in {"Blocked", "Error"} =>
            IF tsCfg.auto_escalate /\ current_tier < tsCfg.max_tier
            THEN tsState' = "Attempting" /\ current_tier' = current_tier + 1
            ELSE /\ tsState' = "Exhausted"
                 /\ current_tier' = current_tier
                 /\ tsOut'.kind = "raised"
                 /\ tsOut'.reason = tsLast.kind
    /\ tsState = "Unavailable" =>
            /\ tsState' = "Exhausted"
            /\ current_tier' = current_tier
            /\ tsOut'.kind = "raised"
            /\ tsOut'.reason = "Unavailable"
            /\ tsOut'.tier = current_tier

\* C3 (as claimed): after a tier attempt ends Blocked, Unavailable or Error at
\* tier t, the controller next attempts t+1 if auto-escalation is enabled and
\* t < max_tier, and otherwise terminates as exhausted with that failure.
C3_EscalateOrExhaust == [][C3_StepAsClaimed]_vars

\* C3 (amended): after Blocked or Error at tier t the controller next attempts
\* t+1 if auto-escalation is enabled and t < max_tier and otherwise terminates
\* as exhausted with that failure; after Unavailable it always terminates as
\* exhausted with that failure, whatever auto_escalate and max_tier are.
C3_EscalateUnlessUnavailable == [][C3_StepAmended]_vars

\* the tiers attempted, in order
RECURSIVE Attempts(_)
Attempts(log) ==
    IF log = <<>> THEN <<>>
    ELSE (IF Head(log).kind = "attempt" THEN <<Head(log).tier>> ELSE <<>>)
         \o Attempts(Tail(log))

\* a run that escalated from tier 1 after a block and stopped at an
\* unavailable tier 2 although a higher tier was allowed
C3_Witness ==
    /\ tsState = "Exhausted"
    /\ tsLast.kind = "Unavailable"
    /\ tsCfg.auto_escalate
    /\ tsLast.tier < tsCfg.max_tier
    /\ Attempts(escalation_log) = <<1, 2>>

\* C6: with min_delay d > 0, wait_if_needed does not return for a domain
\* earlier than d after the timestamp the previous call for that domain
\* recorded, and a call made within d of it waits at least d minus the
\* elapsed time.
C6_MinDelayRespected ==
    (rlRet.done /\ rlRet.hadPrev /\ minDelay > 0)
    => /\ rlRet.retTime >= rlRet.prev + minDelay
       /\ rlRet.elapsed < minDelay => rlRet.waited >= minDelay - rlRet.elapsed

\* a second call for a domain that came too early and had to wait
C6_Witness ==
    /\ rlRet.done
    /\ rlRet.hadPrev
    /\ minDelay > 0
    /\ rlRet.elapsed < minDelay
    /\ rlRet.waited > 0

\* C10: on every termination of the escalation controller, success or
\* failure, the caller receives the tier used (or last tried) together with
\* the full escalation log of every attempted tier in order.
C10_CallerGetsTierAndLog ==
    (tsState \in {"Success", "Exhausted"} /\ Attempts(escalation_log) # <<>>)
    => /\ tsOut.tier = current_tier
       /\ tsOut.hasLog
       /\ tsOut.log = escalation_log

\* what validate_scrape_url answers for each URL a job may list
Verdicts == [u \in JobUrlNames |-> validate_scrape_url(UrlOf(u))]

\* C1: a URL that fails URL safety validation is never fetched: no outbound
\* request (JS-render call or HTTP GET) is made for it, an error result is
\* recorded for that URL and for no other, and the job goes on to the next
\* URL.
C1_RejectedUrlNeverFetched ==
    /\ \A u \in requested : Verdicts[u] = "ok"
    /\ fetchSt.requests # <<>> => fetchSt.verdict = "ok"
    /\ pc \in {"render", "get"} => Verdicts[CurrentUrl] = "ok"
    /\ \A i \in 1..total_urls :
          /\ (i <= idx /\ Verdicts[jobCfg.urls[i]] # "ok")
                => results[jobCfg.urls[i]] = ErrorResponse("URL validation failed")
          /\ i > idx => results[jobCfg.urls[i]] = NoResult
    /\ (pc = "save" \/ ret.kind = "results") => idx = total_urls

\* a finished run whose first URL was refused and whose second URL was then
\* fetched and extracted
C1_Witness ==
    /\ pc = "done"
    /\ ret.kind = "results"
    /\ jobCfg.urls = <<"http://rebind.example/", "http://example.com/">>
    /\ ret.results["http://rebind.example/"] = ErrorResponse("URL validation failed")
    /\ ret.results["http://example.com/"].status = "success"
    /\ requested = {"http://example.com/"}

\* C4: when a run is halted by the job timeout or by cancellation, the
\* outcome returned to the caller contains the result of every URL completed
\* before the halt, tagged with the terminating status; accumulated results
\* are never discarded.
C4_HaltReturnsPartialResults ==
    (ret.kind = "status" /\ ret.status \in {"timeout", "cancelled"})
    => \A u \in JobUrlNames :
          results[u] # NoResult => (ret.hasResults /\ ret.results[u] = results[u])

\* C5: every run that sets the status to 'processing' ends with the status
\* at one of ready, error, timeout, cancelled, and never leaves it at
\* 'processing'.
C5_RunEndsInTerminalStatus ==
    (pc = "done" /\ wroteProcessing)
    => jobStatus \in {"ready", "error", "timeout", "cancelled"}

C9_Step ==
    /\ (pc = "record" /\ pc' # "record" /\ fetchResp.status # "success")
         => /\ results'[CurrentUrl].status = "error"
            /\ idx' = idx + 1
            /\ ret' = ret
            /\ pc' = IF idx + 1 < total_urls THEN "loop" ELSE "save"
    /\ (pc \in {"loop", "fetch", "render", "get", "record", "save"} /\ pc' = "returned")
         => \/ pc = "loop" /\ ret'.kind = "status" /\ ret'.status \in {"timeout", "cancelled"}
            \/ pc = "save" /\ idx = total_urls
                 /\ \A i \in 1..total_urls : results[jobCfg.urls[i]] # NoResult

QueryFailed(k) ==
    LET query == pqQueries[k]
        step == pqLog[k]
    IN  \/ query.type \notin valid_types
        \/ query.type = "xpath" /\ is_pdf_content(qContent)
        \/ query.type \in pdf_types /\ ~is_pdf_content(qContent)
        \/ ~step.skipped /\ step.out.kind \in {"raises", "timeout"}

DistinctNames(queries) ==
    \A i, j \in 1..Len(queries) : i # j => queries[i].name # queries[j].name

\* C7: query failures are isolated per query: a query that raises, exceeds
\* the regex time budget, has an unknown type or has a type that cannot apply
\* to the page's format yields null for that query only; every sibling query
\* is still handled and keeps its own result, and process_queries returns
\* normally, so that the URL's result remains a success.
C7_QueryFailuresIsolated ==
    (pqPc = "done" /\ DistinctNames(pqQueries))
    => /\ pqReturned
       /\ Len(pqLog) = Len(pqQueries)
       /\ \A k \in 1..Len(pqLog) :
             IF QueryFailed(k)
             THEN extracted_data[pqQueries[k].name] = Null
             ELSE ~pqLog[k].skipped => extracted_data[pqQueries[k].name] = pqLog[k].entry

\* whether the validator of the evaluator's language accepts the expression
ExprAccepted(type, e) ==
    IF type = "xpath" THEN validate_xpath_query(e) = "ok"
    ELSE IF type = "jsonpath" THEN validate_jsonpath_query(e) = "ok"
    ELSE validate_regex_pattern(e) = "ok"

\* C8: no query expression is evaluated during the run of a created job
\* unless it has passed the query safety validator.
C8_OnlyValidatedExpressionsRun ==
    qCreated = "stored"
    => \A k \in 1..Len(pqLog) :
          pqLog[k].evaluated # <<>> => ExprAccepted(pqQueries[k].type, pqLog[k].evaluated)

\* what C11 asks of one step taken while the cancellation flag is set
C11_Step ==
    (jobStatus = "cancelled" /\ pc \notin {"idle", "done"})
    => /\ ~(pc = "loop" /\ pc' = "fetch")
       /\ jobStatus' = "cancelled"
       /\ (pc # "returned" /\ pc' = "returned")
             => (ret'.kind = "status" /\ ret'.status = "cancelled")

\* C11: cancellation is honoured at the next URL iteration boundary: once
\* the job's status is 'cancelled' the runner starts no further URL fetch,
\* keeps the status, and process_job returns Cancelled.
C11_CancellationHonoured == [][C11_Step]_vars

\* what C12 asks of the step in which process_job returns
C12_Step ==
    (total_urls = 1 /\ idx = 1 /\ pc # "returned" /\ pc' = "returned"
        /\ jobElapsed > jobCfg.timeout)
    => (ret'.kind = "status" /\ ret'.status = "timeout")

\* C12: when the fetch of a job's single URL has taken the run beyond the
\* job's timeout, process_job returns Timeout rather than the completed
\* results, and it does not raise.
C12_SlowSingleUrlTimesOut == [][C12_Step]_vars

\* utils.py line 390: the statuses taken for proxy errors
ProxyErrorCodes == {407, 502, 504}
\* utils.py line 366: the retry cap when proxy_config names none
DefaultMaxRetries == 3

\* how many attempts the log holds for a tier
AttemptsAt(log, tier) ==
    Cardinality({i \in 1..Len(Attempts(log)) : Attempts(log)[i] = tier})

\* what C13 asks of a tier attempt that got a proxy-error status
C13_Step ==
    (/\ tsState = "Attempting"
     /\ current_tier \in {1, 2}
     /\ tsSeen'.called
     /\ tsSeen'.response.status_code \in ProxyErrorCodes
     /\ AttemptsAt(escalation_log', current_tier) < DefaultMaxRetries)
    => (tsState' = "Attempting" /\ current_tier' = current_tier)

\* C13: within tier 1 or tier 2 a response with status 407, 502 or 504 is
\* retried in the same tier, up to the retry cap, before the attempt's
\* outcome may end the tier (as a success, a block or an escalation).
C13_ProxyErrorRetriedInTier == [][C13_Step]_vars

\* the members of a sequence
Range(seq) == {seq[i] : i \in 1..Len(seq)}

\* the indicator the claim ties to each strong status
StrongIndicator(status_code) ==
    IF status_code = 403 THEN "403_forbidden"
    ELSE IF status_code = 429 THEN "429_rate_limited"
    ELSE "503_service_unavailable"

\* C14: detect_blocking returns blocked = true exactly when the indicator
\* list it returns is not empty, and each of the statuses 403, 429 and 503
\* adds its indicator, so a response with one of them is reported blocked
\* whatever its body.
C14_BlockedIffIndicators ==
    tsSeen.called
    => /\ tsSeen.is_blocked <=> tsSeen.indicators # <<>>
       /\ tsSeen.response.status_code \in {403, 429, 503}
             => /\ StrongIndicator(tsSeen.response.status_code) \in Range(tsSeen.indicators)
                /\ tsSeen.is_blocked

\* a 503 with a long body without any challenge phrase, reported blocked on
\* its status alone
C14_Witness ==
    /\ tsSeen.called
    /\ tsSeen.response = [status_code |-> 503, phrases |-> {}, striplen |-> 5000]
    /\ tsSeen.is_blocked
    /\ tsSeen.indicators = <<"503_service_unavailable">>
    /\ tsState = "Blocked"

\* C15: a body shorter than 200 characters never makes a response blocked on
\* its own: 'minimal_content' is added only when another indicator is
\* present or the status is 400 or more, so a short body with a status below
\* 400 and no challenge phrase is not reported blocked.
C15_ShortBodyAloneNotBlocked ==
    tsSeen.called
    => /\ "minimal_content" \in Range(tsSeen.indicators)
             => /\ tsSeen.response.striplen < MinimalContentLen
                /\ \/ Range(tsSeen.indicators) # {"minimal_content"}
                   \/ tsSeen.response.status_code >= 400
       /\ (/\ tsSeen.response.striplen < MinimalContentLen
           /\ tsSeen.response.status_code < 400
           /\ tsSeen.response.phrases = {})
             => (~tsSeen.is_blocked /\ tsSeen.indicators = <<>>)

\* a 50-character page answered with 200 that went through as a success
C15_Witness ==
    /\ tsSeen.called
    /\ tsSeen.response = [status_code |-> 200, phrases |-> {}, striplen |-> 50]
    /\ ~tsSeen.is_blocked
    /\ tsState = "Success"

\* the result C16 prescribes for n matches
C16_Expected(join_flag, n) ==
    IF join_flag /\ n > 0 THEN Joined(n)
    ELSE IF n > 0 THEN ListOf(n)
    ELSE Null

\* C16: for an executed query, join=true with at least one match gives the
\* matches joined with '|'; otherwise the result is the full match list, or
\* null when there is no match.  Stated for process_queries and for
\* execute_query.
C16_JoinSemantics ==
    /\ \A k \in 1..Len(pqLog) :
          (pqLog[k].evaluated # <<>> /\ pqLog[k].out.kind = "matches")
          => pqLog[k].entry = C16_Expected(pqQueries[k].join, pqLog[k].out.n)
    /\ (/\ eqCall.done
        /\ eqCall.out.kind = "matches"
        /\ SelectorOf(eqCall.query) # <<>>
        /\ eqCall.query.type \in {"xpath", "regex"})
       => eqCall.result = C16_Expected(eqCall.query.join, eqCall.out.n)

\* C17: with join=false a non-empty match set is returned as a list on every
\* extraction path, process_queries and execute_query alike: one match is a
\* one-element list, never a bare value.
C17_ListUnlessJoined ==
    /\ \A k \in 1..Len(pqLog) :
          (/\ pqLog[k].evaluated # <<>>
           /\ pqLog[k].out.kind = "matches"
           /\ pqLog[k].out.n > 0
           /\ ~pqQueries[k].join)
          => pqLog[k].entry = ListOf(pqLog[k].out.n)
    /\ (/\ eqCall.done
        /\ eqCall.out.kind = "matches"
        /\ eqCall.out.n > 0
        /\ ~eqCall.query.join
        /\ SelectorOf(eqCall.query) # <<>>
        /\ eqCall.query.type \in {"xpath", "regex"})
       => eqCall.result = ListOf(eqCall.out.n)

\* C18: URL safety validation runs at fetch time on every fetch path: a
\* routine sends a request for a URL only if validate_scrape_url has passed
\* it earlier in the same call chain.  Stated for the session fetch of the
\* job runner and for the tier strategies run by smart_scrape.
C18_EveryFetchValidated ==
    /\ \A u \in requested : Verdicts[u] = "ok"
    /\ \A u \in tsRequested : Verdicts[u] = "ok"

\* C19 (as claimed): wait_if_needed always records a new last-request
\* timestamp for the URL's domain before it returns, whether or not it
\* waited, also when min_delay is zero, in which case it never waits.
C19_AlwaysRecords ==
    rlRet.done
    => /\ rlRet.recorded
       /\ lastReq[rlRet.domain] = rlRet.retTime
       /\ minDelay = 0 => rlRet.waited = 0

\* C19 (amended): with min_delay > 0 wait_if_needed records the time of its
\* return as the domain's last-request timestamp, whether or not it waited;
\* with min_delay zero it never waits and returns without recording
\* anything.
C19_RecordsUnlessDisabled ==
    rlRet.done
    => /\ minDelay > 0
             => /\ rlRet.recorded
                /\ lastReq[rlRet.domain] = rlRet.retTime
       /\ minDelay = 0
             => /\ rlRet.waited = 0
                /\ ~rlRet.recorded
                /\ lastReq = [d \in Domains |-> 0]

\* a call that came late enough not to wait and recorded its return time
C19_Witness ==
    /\ rlRet.done
    /\ minDelay > 0
    /\ rlRet.hadPrev
    /\ rlRet.waited = 0
    /\ rlRet.recorded
    /\ lastReq[rlRet.domain] = rlRet.retTime
    /\ rlRet.retTime > rlRet.prev

\* C20: the URL safety validator denies on uncertainty: an address string
\* that ipaddress cannot parse counts as blocked, so a URL whose hostname
\* resolves to one is rejected, and a hostname that cannot be resolved, or
\* resolves to no address, is rejected as well.
C20_DeniesOnUncertainty ==
    ssrfVerdict # NoValue
    => /\ (\E i \in 1..Len(ssrfInput.answer.addrs) :
              ssrfInput.answer.addrs[i].kind = "bad")
             => ssrfVerdict # "ok"
       /\ (ssrfInput.answer.gaierror \/ ssrfInput.answer.addrs = <<>>)
             => ssrfVerdict # "ok"

\* an http URL rejected because the second address its host resolves to
\* cannot be parsed, the first one being public
C20_Witness ==
    /\ ssrfVerdict = "blocked_ip"
    /\ ssrfInput.scheme = "http"
    /\ ssrfInput.host = <<"example", "com">>
    /\ ssrfInput.answer.addrs = <<PublicV4, BadAddr>>

(***************************************************************************)
(* The table of blocked ranges as the specification words it, by octets    *)
(* and groups: 127/8, 10/8, 172.16/12, 192.168/16, 169.254/16, 0/8; ::1,   *)
(* fc00::/7 (first group fc00..fdff), fe80::/10 (first group fe80..febf).  *)
(***************************************************************************)
TableV4(o) ==
    \/ o[1] = 127
    \/ o[1] = 10
    \/ (o[1] = 172 /\ o[2] \in 16..31)
    \/ (o[1] = 192 /\ o[2] = 168)
    \/ (o[1] = 169 /\ o[2] = 254)
    \/ o[1] = 0

TableV6(g) ==
    \/ g = <<0, 0, 0, 0, 0, 0, 0, 1>>
    \/ g[1] \in 64512..65023
    \/ g[1] \in 65152..65215

IsMapped(g) == (\A i \in 1..5 : g[i] = 0) /\ g[6] = 65535

EmbeddedV4(g) == <<g[7] \div 256, g[7] % 256, g[8] \div 256, g[8] % 256>>

TableBlocked(addr) ==
    IF addr.kind = "v4" THEN TableV4(addr.w)
    ELSE IF IsMapped(addr.w) THEN TableV4(EmbeddedV4(addr.w))
    ELSE TableV6(addr.w)

\* C21: an address is blocked exactly according to the table: a URL whose
\* host resolves to addresses that all parse is rejected as blocked if and
\* only if one of them is an IPv4 address of the IPv4 table, an IPv6 address
\* of the IPv6 table, or an IPv4-mapped IPv6 address whose embedded IPv4
\* address is in the IPv4 table; with public addresses only it is accepted.
C21_BlockedExactlyByTable ==
    ( /\ ssrfVerdict \in {"blocked_ip", "ok"}
      /\ \A i \in 1..Len(ssrfInput.answer.addrs) :
            ssrfInput.answer.addrs[i].kind # "bad" )
    => ( ssrfVerdict = "blocked_ip"
         <=> \E i \in 1..Len(ssrfInput.answer.addrs) :
                TableBlocked(ssrfInput.answer.addrs[i]) )

\* a URL rejected for the single address 172.31.255.254, the top of
\* 172.16.0.0/12
C21_Witness ==
    /\ ssrfVerdict = "blocked_ip"
    /\ ssrfInput.answer.addrs = <<V4(172, 31, 255, 254)>>

\* whether the name of an XPath input is a function call: what follows it,
\* after the white space, starts with an opening parenthesis
IsCall(input) == input.parts[4] # <<>> /\ Head(input.parts[4]) = "("

\* C22: validate_xpath_query accepts an expression only if every function
\* it calls is in the whitelist: an expression that calls another function,
\* such as document() or system-property(), with or without white space
\* before the parenthesis, is rejected for that function.
C22_OnlyWhitelistedFunctions ==
    ( /\ exprInput.type = "xpath"
      /\ exprVerdict # NoValue
      /\ IsCall(exprInput)
      /\ exprInput.parts[2] \notin ALLOWED_XPATH_FUNCTIONS )
    => exprVerdict = "function_not_allowed"

\* document ('x.xml'), with a blank before the parenthesis, has been rejected
C22_Witness ==
    /\ exprVerdict = "function_not_allowed"
    /\ exprInput.parts = << <<>>, <<"d", "o", "c", "u", "m", "e", "n", "t">>, <<" ">>, <<"(", "'", "x", ".", "x", "m", "l", "'", ")">> >>

\* the number of backslashes that stand immediately before position i
RECURSIVE BackslashesBefore(_, _)
BackslashesBefore(p, i) ==
    IF i > 1 /\ p[i - 1] = "\\" THEN 1 + BackslashesBefore(p, i - 1) ELSE 0

\* the character at i is an escaped literal
IsEscaped(p, i) == BackslashesBefore(p, i) % 2 = 1

\* a repetition {n}, {n,} or {n,m} opens at i
BraceQuantifierAt(p, i) ==
    /\ i <= Len(p)
    /\ p[i] = "{"
    /\ \E j \in (i + 2)..Len(p) :
          /\ p[j] = "}"
          /\ \A k \in (i + 1)..(j - 1) : p[k] \in Digits \cup {","}

\* a quantifier *, +, ?, {n} or {n,m} starts at i and is not an escaped literal
QuantifierAt(p, i) ==
    /\ i >= 1
    /\ i <= Len(p)
    /\ ~IsEscaped(p, i)
    /\ (p[i] \in {"*", "+", "?"} \/ BraceQuantifierAt(p, i))

\* the pattern's total number of quantifiers, escaped literals not counted
TotalQuantifiers(p) == Cardinality({i \in 1..Len(p) : QuantifierAt(p, i)})

\* C23: validate_regex_pattern rejects a pattern as too complex exactly when
\* its total number of quantifiers (*, +, ?, {n}, {n,m}, escaped literals not
\* counted) exceeds 5: a pattern that passes the earlier checks is rejected
\* if it has 6 or more of them and is accepted if it has 5 or fewer.
C23_RejectsIffMoreThanFiveQuantifiers ==
    ( /\ exprInput.type = "regex"
      /\ exprVerdict \in {"ok", "too_complex"} )
    => ( exprVerdict = "too_complex"
         <=> TotalQuantifiers(Strip(ExprText)) > MAX_REGEX_QUANTIFIERS )

\* a quantifier that is not an escaped literal ends at j: *, +, ? or the
\* closing brace of a repetition
QuantifierEndsAt(p, j) ==
    \/ (p[j] \in {"*", "+", "?"} /\ ~IsEscaped(p, j))
    \/ (p[j] = "}" /\ \E i \in 1..(j - 2) :
            /\ QuantifierAt(p, i)
            /\ p[i] = "{"
            /\ \A k \in (i + 1)..(j - 1) : p[k] \in Digits \cup {","})

\* the pattern has a group that ends in a quantifier and is immediately
\* followed by another quantifier
QuantifiedGroupQuantified(p) ==
    \E i, j \in 1..Len(p) :
        /\ i + 2 <= j
        /\ p[i] = "(" /\ ~IsEscaped(p, i)
        /\ p[j] = ")" /\ ~IsEscaped(p, j)
        /\ \A k \in (i + 1)..(j - 1) : p[k] \notin {"(", ")"}
        /\ QuantifierEndsAt(p, j - 1)
        /\ QuantifierAt(p, j + 1)

\* C24: validate_regex_pattern rejects every pattern that contains a group
\* ending in a quantifier and immediately followed by another quantifier,
\* such as (a+)+.
C24_QuantifiedGroupQuantifiedRejected ==
    ( /\ exprInput.type = "regex"
      /\ exprVerdict # NoValue
      /\ QuantifiedGroupQuantified(Strip(ExprText)) )
    => exprVerdict # "ok"

\* the opening bracket a closing one pairs with
OpenerOf(ch) == IF ch = "]" THEN "[" ELSE "("

\* the brackets and parentheses of p are balanced, open being the stack of
\* those opened and not yet closed: each closing one closes the last one
\* opened, of its own kind, and none stays open
RECURSIVE BalancedFrom(_, _)
BalancedFrom(p, open) ==
    IF p = <<>> THEN open = <<>>
    ELSE IF Head(p) \in {"[", "("} THEN BalancedFrom(Tail(p), Append(open, Head(p)))
    ELSE IF Head(p) \in {"]", ")"}
         THEN /\ open # <<>>
              /\ open[Len(open)] = OpenerOf(Head(p))
              /\ BalancedFrom(Tail(p), SubSeq(open, 1, Len(open) - 1))
    ELSE BalancedFrom(Tail(p), open)

Balanced(p) == BalancedFrom(p, <<>>)

\* C25: validate_xpath_query rejects every expression whose square brackets
\* or parentheses are not balanced: an expression it accepts has each
\* closing bracket after its opening one.
C25_UnbalancedRejected ==
    ( /\ exprInput.type = "xpath"
      /\ exprVerdict # NoValue
      /\ ~Balanced(Strip(ExprText)) )
    => exprVerdict # "ok"

\* C26: query names are unique within a job: validate_queries rejects any
\* query list in which two queries carry the same name, so create_job_handler
\* refuses such a list and the queries of a stored job have distinct names.
C26_QueryNamesUnique ==
    /\ (qCreated # "none" /\ ~DistinctNames(qSubmitted)) => qCreated = "rejected"
    /\ qCreated = "stored" => DistinctNames(qStored)

\* a list of two queries, each valid by itself, refused for their common name
C26_Witness ==
    /\ qCreated = "rejected"
    /\ Len(qSubmitted) = 2
    /\ qSubmitted[1].name = qSubmitted[2].name
    /\ \A i \in 1..2 : validate_query(qSubmitted[i]) = "ok"
    /\ validate_queries(qSubmitted) = "duplicate_name"

\* C27: within one escalation run the attempted tiers are min_tier,
\* min_tier + 1, and so on, none above max_tier: each escalation advances by
\* exactly one tier, no tier is skipped and no tier is attempted twice.
C27_TiersAttemptedInOrder ==
    LET attempted == Attempts(escalation_log)
    IN  \A k \in 1..Len(attempted) :
            /\ attempted[k] = tsCfg.min_tier + (k - 1)
            /\ attempted[k] <= tsCfg.max_tier

\* a run that was blocked at tier 1, blocked again at tier 2 and went on to
\* tier 3
C27_Witness ==
    /\ Attempts(escalation_log) = <<1, 2, 3>>
    /\ tsState = "Exhausted"
    /\ tsCfg.min_tier = 1

\* C28: for each URL the job runner validates the URL first, then waits on
\* the domain rate limiter, then fetches: every URL a request has been sent
\* for has passed validate_scrape_url, and a wait_if_needed call has recorded
\* a request time in the limiter before the request went out.
C28_ValidateThenWaitThenFetch ==
    \A u \in requested :
        /\ Verdicts[u] = "ok"
        /\ \E d \in Domains : Stamped(d)

\* C29: no request is sent to an address in a blocked range, even when the
\* DNS answer for the hostname changes between the validator's resolution
\* and the HTTP client's own resolution for the fetch.
C29_NoRequestToBlockedAddress ==
    ssrfConnected # NoAddr => ~_is_ip_blocked(ssrfConnected)

\* C30: the per-domain spacing holds under concurrent use: when parallel
\* fetches call wait_if_needed on one limiter with min_delay > 0, no two
\* requests to the same domain are released less than min_delay apart.
C30_SpacingUnderConcurrency ==
    minDelay > 0
    => \A r1, r2 \in released :
          (r1.caller # r2.caller /\ r1.domain = r2.domain)
              => (r1.at - r2.at >= minDelay \/ r2.at - r1.at >= minDelay)

\* the numbers of handled URLs at which this run issued a progress write
\* from inside the loop
WrittenAfter ==
    { progressWrites[i].after : i \in 1..Len(progressWrites) } \ {0}

\* C31: during a run, progress is written after the URLs at positions 10,
\* 20, 30, ... and after the final URL, once each, and after no other URL
C31_ProgressCadence ==
    /\ WrittenAfter = { k \in 1..runIdx : k % 10 = 0 \/ k = runTotal }
    /\ \A i, j \in 1..Len(progressWrites) :
          progressWrites[i].after = progressWrites[j].after => i = j

\* a run of 21 URLs has written after the 10th, the 20th and the 21st
C31_Witness ==
    /\ runTotal = 21
    /\ runPc = "after"
    /\ WrittenAfter = {10, 20, 21}

\* the progress maps this run has stored in job_table, in the order written
StoredProgress ==
    LET F[i \in 0..Len(progressWrites)] ==
          IF i = 0 THEN <<>>
          ELSE IF progressWrites[i].ok THEN Append(F[i - 1], progressWrites[i].progress)
          ELSE F[i - 1]
    IN  F[Len(progressWrites)]

\* C32: across the successive progress writes of one run the processed
\* count, the failed count and the percentage never decrease, processed +
\* failed never exceeds total, and the percentage stays within 0..100
C32_ProgressMonotone ==
    /\ \A i, j \in 1..Len(StoredProgress) :
          i < j => /\ StoredProgress[i].processed <= StoredProgress[j].processed
                   /\ StoredProgress[i].failed <= StoredProgress[j].failed
                   /\ StoredProgress[i].percentage <= StoredProgress[j].percentage
    /\ \A i \in 1..Len(StoredProgress) :
          /\ StoredProgress[i].processed + StoredProgress[i].failed
                <= StoredProgress[i].total
          /\ StoredProgress[i].percentage \in 0..100

\* four stored writes of one run, with both counters and the percentage
\* growing from the first to the last
C32_Witness ==
    /\ Len(StoredProgress) = 4
    /\ StoredProgress[1].percentage = 0
    /\ StoredProgress[2].percentage = 47
    /\ StoredProgress[3].percentage = 95
    /\ StoredProgress[4].percentage = 100
    /\ StoredProgress[2].processed < StoredProgress[3].processed
    /\ StoredProgress[2].failed < StoredProgress[4].failed

\* what C33 asks of one step of a run or of its handler: a status of
\* 'cancelled' is still there afterwards
C33_Step ==
    (jobStatus = "cancelled" /\ pc \notin {"idle", "done"}) => jobStatus' = "cancelled"

\* C33: a cancellation is never lost to the runner's own status writes: once
\* cancel_job has set the status to 'cancelled' during a run, no write of
\* the run ('processing', 'ready') replaces it, so the status after the run
\* is 'cancelled'
C33_CancellationNeverLost == [][C33_Step]_vars

\* smart_scrape has returned a result or raised
TierTerminated == tsState \in {"Success", "Exhausted"}

\* the number of tier attempts smart_scrape may make and has made
C34_AttemptBound ==
    LET n == Len(Attempts(escalation_log))
    IN  /\ tsCfg.min_tier <= tsCfg.max_tier
           => /\ n <= tsCfg.max_tier - tsCfg.min_tier + 1
              /\ ~tsCfg.auto_escalate => n <= 1
              /\ (TierTerminated /\ ~tsCfg.auto_escalate) => n = 1
        /\ tsCfg.min_tier > tsCfg.max_tier
           => /\ n = 0
              /\ TierTerminated => (tsState = "Exhausted" /\ tsOut.kind = "raised")

\* C34: smart_scrape always terminates, after at most max_tier - min_tier + 1
\* tier attempts, after exactly one attempt when auto_escalate is false (and
\* the tier range is not empty), and with a failure and no attempt at all
\* when min_tier > max_tier
C34_TerminatesWithinBound ==
    /\ []C34_AttemptBound
    /\ <>TierTerminated

\* a run over tiers 1..3 that used all three attempts the range allows
C34_Witness ==
    /\ tsCfg = [min_tier |-> 1, max_tier |-> 3, auto_escalate |-> TRUE]
    /\ TierTerminated
    /\ Len(Attempts(escalation_log)) = 3

\* the HTTP requests the call in progress has issued through session.get
GetRequests == Cardinality({ i \in 1..Len(fetchSt.requests) : fetchSt.requests[i] = "get" })

\* what C35 asks of a call at every moment and when it is over
C35_Bounded ==
    /\ GetRequests <= jobCfg.proxy_config.max_retries
    /\ ~jobCfg.proxy_config.enabled => GetRequests <= 1
    /\ pc = "record" => fetchResp.status \in {"success", "error"}

\* what C35 asks of a retry: the sleep before the next request is 2^a
\* seconds, a being the number of the attempt that failed
C35_Step ==
    (pc = "get" /\ pc' = "get")
    => /\ fetchSt'.attempt = fetchSt.attempt + 1
       /\ jobElapsed' = IF jobElapsed + 2 ^ fetchSt.attempt > MaxElapsed
                        THEN MaxElapsed ELSE jobElapsed + 2 ^ fetchSt.attempt

\* C35: fetch_url_with_session issues at most max_retries HTTP requests per
\* call (at most one when no proxy is enabled) and always returns a success
\* or an error result; whenever it retries after failed attempt number a it
\* sleeps 2^a seconds before the next request
C35_BoundedRetriesAlwaysReturns == []C35_Bounded /\ [][C35_Step]_vars

\* the phrases of challenge pages the detector looks for
ChallengePhrases == { blocking_patterns[i][1] : i \in 1..Len(blocking_patterns) }

\* C36: the escalation controller reports success only for a response on
\* which the blocking detector found no indicator: a result returned as
\* success never has HTTP status 403, 429 or 503 and never contains a
\* challenge-page phrase
C36_SuccessIsUnblocked ==
    (tsState = "Success" /\ tsOut.kind = "returned")
    => /\ tsSeen.called
       /\ detect_blocking(tsSeen.response) = <<>>
       /\ tsSeen.response.status_code \notin {403, 429, 503}
       /\ tsSeen.response.phrases \cap ChallengePhrases = {}

\* tier 1 was blocked by a challenge page, tier 2 then returned a clean page
C36_Witness ==
    /\ tsState = "Success"
    /\ tsOut.kind = "returned"
    /\ tsOut.tier = 2
    /\ \E i \in 1..Len(escalation_log) : escalation_log[i] = LogEntry("blocked", 1)
    /\ tsSeen.response = [status_code |-> 200, phrases |-> {}, striplen |-> 5000]

\* C37: the result map returned for a URL has exactly one entry (a value or
\* null) for every query of the job's query list, whether the query's
\* expression is stored under the key 'query' or under the key 'selector'
C37_EveryQueryHasEntry ==
    (pqPc = "done" /\ pqReturned /\ qCreated = "stored")
    => /\ \A k \in 1..Len(pqQueries) : extracted_data[pqQueries[k].name] # Absent
       /\ \A n \in QueryNames :
             extracted_data[n] # Absent
                => \E k \in 1..Len(pqQueries) : pqQueries[k].name = n

\* the URLs the loop has handled so far
HandledUrls == { jobCfg.urls[i] : i \in 1..idx }

RunningWorkers == { w \in Workers : wkPc[w] \in {"set_processing", "loop", "save"} }

\* what C39 asks of the step in which a run passes the pre-start check
C39_Step ==
    \A w \in Workers :
        (wkPc[w] = "start" /\ wkPc'[w] = "set_processing")
        => (RunningWorkers = {} /\ wkStatus # "processing")

\* C39: at most one worker processes a given job at a time: a job that is
\* already being processed is never started by a second process_job run, for
\* example on a duplicate queue delivery
C39_OneWorkerPerJob == [](Cardinality(RunningWorkers) <= 1) /\ [][C39_Step]_vars

\* what C40 asks of a rotation: the proxy chosen after mark_proxy_failed(p)
\* is not p
C40_Step ==
    (pxPc = "get" /\ pxAttempt' = pxAttempt + 1) => pxSession' # pxSession

\* C40: on an in-tier proxy failure the retry goes through a different proxy
\* endpoint than the one that just failed: after mark_proxy_failed(p), the
\* rotation performed within the same fetch call does not select p again
C40_RetryUsesOtherProxy == [][C40_Step]_vars

=============================================================================
